---- MODULE Spec2Model ----
(***************************************************************************)
(* RBAC-aware retrieval of the SharePoint chat backend:                    *)
(*   - the Permission Aggregator  (app/services/document_permission.py),   *)
(*   - the Access Decision Engine (has_document_access in                  *)
(*     app/services/agent.py, check_user_permission in                     *)
(*     app/services/sharepoint_service.py),                                *)
(*   - the Group Membership Resolver (check_user_group_membership),        *)
(*   - the RBAC-filtered retrieval (document_search_tool).                 *)
(*                                                                         *)
(* Python strings that the code lowercases, strips, splits or measures are *)
(* sequences of one-character strings; strings that are only compared for  *)
(* equality (access levels, link scopes, dictionary keys) are TLA+ strings.*)
(* A Python dict is a function from its keys; an absent key is absent from *)
(* the DOMAIN, and the empty dict is << >>.                                *)
(***************************************************************************)
EXTENDS Integers, Sequences, FiniteSets, Bags, TLC

VARIABLES
    ORG_DOMAINS,        \* settings.ORG_DOMAINS, the comma separated allow-list
    \* ---- has_document_access / check_user_permission on one input
    a_pc,               \* "input" | "agent" | "sharepoint"
    a_metadata,         \* doc.metadata (and the permission record read from it)
    a_email,            \* user_email
    a_directory,        \* what the directory did during the decision
    a_decision,         \* the boolean returned
    \* ---- get_document_permissions on one document
    g_pc,               \* "fetch" | "loop" | "returned" | "raised"
    permissions,        \* permissions_data["value"]
    g_next,             \* index of the next entry the for loop processes
    result,             \* the result dict being built / returned
    \* ---- document_search_tool inside one call_agent
    pc,                 \* "call" | "filter" | "serialize" | "returned" | "raised"
    user_context,       \* call_agent's user_context (present = FALSE: None)
    n,                  \* the tool's argument n
    collection,         \* the chunks of the store, most relevant first
    results,            \* the tool's local `results`
    filtered_results,   \* the tool's local `filtered_results`
    cursor,             \* position of the for loop in `results`
    checked,            \* has_document_access verdict per examined candidate (history)
    requests,           \* directory requests made per examined candidate (history)
    searches,           \* the k of every similarity search issued (history)
    pool,               \* what the similarity search returned (history)
    caught,             \* whether the except of line 168 caught an exception
    output,             \* the list the tool returns as JSON
    \* ---- check_user_group_membership on one input
    m_pc,               \* "input" | "returned" | "raised"
    m_user_email,       \* user_email
    m_groups,           \* groups
    m_directory,        \* what the directory did during the call
    m_result,           \* the boolean returned
    \* ---- one request: get_current_user, then list_documents or get_document_content
    DEV_MODE,           \* settings.DEV_MODE
    request_headers,    \* request.headers
    credentials,        \* the bearer token's payload, << >> without a token
    current_user,       \* what get_current_user returned
    s_pc,               \* position of the request
    documents,          \* the documents of the drive, each with its permission record
    s_user_email,       \* the user_email argument of the service method
    document_id,        \* the document asked for / the loop's position
    accessible_documents, \* list_documents' accumulator and result
    s_passed,           \* ids for which check_user_permission returned True (history)
    \* ---- the document store under re-indexing, deletion and queries
    sp_versions,        \* the drive's document over time, the last one is current
    store,              \* self.collection: the bag of the stored chunks' metadata
    w_pc,               \* per worker: position in the running call
    w_args,             \* per worker: arguments of the running call
    w_all_documents,    \* per worker: update_document_in_database's all_documents
    w_inserted,         \* per worker: how many of all_documents are inserted
    q_results,          \* what the queries found in the store (history)
    \* ---- process_webhook_notification on one notification
    delta_links,        \* the saved delta link per resource: how far it reaches
    drive_feed,         \* the changes of each resource, as the delta API lists them
    applied,            \* the changes applied to the document store
    wh_pc,              \* "idle" | "item" | "changes"
    wh_notifications,   \* items of the notification still to handle
    wh_resource,        \* resource of the item being handled
    wh_changes,         \* changes of the delta response still to handle
    wh_stopped,         \* a return left items or changes unhandled (history)
    \* ---- start_chat and continue_chat
    threads,            \* the threads collection, in insertion order
    now,                \* datetime.now(), in ticks
    started,            \* what each start_chat did (history)
    continued,          \* what each continue_chat did (history)
    \* ---- process_granted_entity on one entity
    e_pc,               \* "input" | "returned"
    e_entity,           \* entity
    e_in,               \* result before the call
    e_details,          \* what get_group_details returned, NotLookedUp without a call
    e_out               \* result after the call

accessVars == <<a_pc, a_metadata, a_email, a_directory, a_decision>>
aggVars    == <<g_pc, permissions, g_next, result>>
searchVars == <<pc, user_context, n, collection, results, filtered_results,
                cursor, checked, requests, searches, pool, caught, output>>
resolverVars == <<m_pc, m_user_email, m_groups, m_directory, m_result>>
gateVars   == <<DEV_MODE, request_headers, credentials, current_user, s_pc, documents,
                s_user_email, document_id, accessible_documents, s_passed>>
indexVars  == <<sp_versions, store, w_pc, w_args, w_all_documents, w_inserted,
                q_results>>
webhookVars == <<delta_links, drive_feed, applied, wh_pc, wh_notifications,
                 wh_resource, wh_changes, wh_stopped>>
chatVars   == <<threads, now, started, continued>>
entityVars == <<e_pc, e_entity, e_in, e_details, e_out>>
vars       == <<ORG_DOMAINS, accessVars, aggVars, searchVars, resolverVars, gateVars,
                indexVars, webhookVars, chatVars, entityVars>>

-----------------------------------------------------------------------------
(* Bounds of the model *)

MaxUsers == 2
MaxGroups == 1
MaxEntries == 3
MaxChunks == 4
MaxN == 2

-----------------------------------------------------------------------------
(* Python str operations *)

UpperLetters ==
    <<"A","B","C","D","E","F","G","H","I","J","K","L","M",
      "N","O","P","Q","R","S","T","U","V","W","X","Y","Z">>

LowerLetters ==
    <<"a","b","c","d","e","f","g","h","i","j","k","l","m",
      "n","o","p","q","r","s","t","u","v","w","x","y","z">>

LowerChar(c) ==
    IF \E k \in 1..26 : UpperLetters[k] = c
    THEN LowerLetters[CHOOSE k \in 1..26 : UpperLetters[k] = c]
    ELSE c

\* str.lower()
StrLower(s) == [k \in 1..Len(s) |-> LowerChar(s[k])]

\* c in s, for a one-character c
StrContains(s, c) == \E k \in 1..Len(s) : s[k] = c

\* s.startswith(p)
StartsWith(s, p) == Len(s) >= Len(p) /\ SubSeq(s, 1, Len(p)) = p

IsSpace(c) == c \in {" ", "\t", "\n"}

RECURSIVE LStrip(_)
LStrip(s) == IF s # <<>> /\ IsSpace(Head(s)) THEN LStrip(Tail(s)) ELSE s

RECURSIVE RStrip(_)
RStrip(s) ==
    IF s # <<>> /\ IsSpace(s[Len(s)]) THEN RStrip(SubSeq(s, 1, Len(s) - 1)) ELSE s

\* str.strip()
Strip(s) == RStrip(LStrip(s))

\* s.split(sep), for a one-character sep: the list of the segments
RECURSIVE Split(_, _)
Split(s, sep) ==
    IF ~StrContains(s, sep) THEN <<s>>
    ELSE LET k == CHOOSE j \in 1..Len(s) :
                      s[j] = sep /\ \A m \in 1..(j - 1) : s[m] # sep
         IN  <<SubSeq(s, 1, k - 1)>> \o Split(SubSeq(s, k + 1, Len(s)), sep)

\* x in list
InList(x, list) == \E k \in 1..Len(list) : list[k] = x

\* dict.get(key, default)
Get(d, key, default) == IF key \in DOMAIN d THEN d[key] ELSE default

\* the sequences over S of length at most m
SeqsUpTo(S, m) == UNION {[1..k -> S] : k \in 0..m}

-----------------------------------------------------------------------------
(* The value of authorized_users / authorized_groups in a chunk's metadata: *)
(* a Python list of strings, or a Python str holding an encoded list.       *)

PyList(items) == [kind |-> "list", items |-> items, text |-> <<>>]
PyText(text)  == [kind |-> "str", items |-> <<>>, text |-> text]
\* None, as a null of the stored document reads
PyNone        == [kind |-> "none", items |-> <<>>, text |-> <<>>]

\* str.replace(a, b), for one-character a and b
Replace(s, a, b) == [k \in 1..Len(s) |-> IF s[k] = a THEN b ELSE s[k]]

Quote == "\""

IsJsonSpace(c) == c \in {" ", "\t", "\n", "\r"}

RECURSIVE SkipSpace(_, _)
SkipSpace(s, i) == IF i <= Len(s) /\ IsJsonSpace(s[i]) THEN SkipSpace(s, i + 1) ELSE i

JsonError == [ok |-> FALSE, items |-> <<>>]

\* the position of the first quote at or after i, 0 if there is none
NextQuote(s, i) ==
    IF \E j \in i..Len(s) : s[j] = Quote
    THEN CHOOSE j \in i..Len(s) : s[j] = Quote /\ \A m \in i..(j - 1) : s[m] # Quote
    ELSE 0

\* the elements of an array from position i on, where a string must open
RECURSIVE JsonItems(_, _, _)
JsonItems(s, i, acc) ==
    IF i > Len(s) \/ s[i] # Quote THEN JsonError
    ELSE LET close == NextQuote(s, i + 1)
         IN  IF close = 0 THEN JsonError
             ELSE LET items == Append(acc, SubSeq(s, i + 1, close - 1))
                      j == SkipSpace(s, close + 1)
                  IN  IF j > Len(s) THEN JsonError
                      ELSE IF s[j] = "]"
                           THEN IF SkipSpace(s, j + 1) > Len(s)
                                THEN [ok |-> TRUE, items |-> items] ELSE JsonError
                      ELSE IF s[j] = ","
                           THEN JsonItems(s, SkipSpace(s, j + 1), items)
                      ELSE JsonError

(* json.loads on a text that is either an array of strings (written without *)
(* escapes) or no JSON document at all: the list, or the ValueError.        *)
JsonLoads(s) ==
    LET i == SkipSpace(s, 1)
    IN  IF i > Len(s) \/ s[i] # "[" THEN JsonError
        ELSE LET j == SkipSpace(s, i + 1)
             IN  IF j <= Len(s) /\ s[j] = "]"
                 THEN IF SkipSpace(s, j + 1) > Len(s)
                      THEN [ok |-> TRUE, items |-> <<>>] ELSE JsonError
                 ELSE JsonItems(s, j, <<>>)

-----------------------------------------------------------------------------
(* Strings of the model *)

OrgUser       == <<"u","@","a",".","c","o">>
OrgUserUpper  == <<"U","@","A",".","c","o">>
PartnerUser   == <<"v","@","p",".","c","o">>
NoAtUser      == <<"u">>
TwoAtUser     == <<"v","@","a",".","c","o","@","p",".","c","o">>
\* an address with an apostrophe in its local part
ApostropheUser == <<"o","'","b","@","a",".","c","o">>

DemoOwners    == <<"d","e","m","o"," ","O","w","n","e","r","s">>
DemoMembers   == <<"d","e","m","o"," ","M","e","m","b","e","r","s">>
DemoVisitors  == <<"d","e","m","o"," ","V","i","s","i","t","o","r","s">>
GroupMail     == <<"g","r","p","@","a",".","c","o">>
GroupMailUpper == <<"G","r","p","@","A",".","c","o">>
\* an opaque directory identifier of 36 characters
GroupGuid     == [k \in 1..36 |-> IF k \in {9, 14, 19, 24} THEN "-" ELSE "f"]
GroupGuidUpper == [k \in 1..36 |-> IF k \in {9, 14, 19, 24} THEN "-" ELSE "F"]

\* str(['u@a.co']), the legacy encoding; a JSON encoding; a bare address
LegacyUsersText == <<"[","'","u","@","a",".","c","o","'","]">>
JsonUsersText   == <<"[",Quote,"v","@","p",".","c","o",Quote,","," ",Quote,"U","@","A",".","c","o",Quote,"]">>
BareUserText    == <<"u","@","a",".","c","o">>
LegacyGroupsText == <<"[","'","g","r","p","@","a",".","c","o","'","]">>
EmptyListText   == <<"[","]">>

\* values of settings.ORG_DOMAINS
OrgDomainSettings ==
    { <<"a",".","c","o">>,
      <<"b",".","c","o",","," ","A",".","c","o",",">> }

-----------------------------------------------------------------------------
(* app/services/document_permission.py *)

get_org_domains ==
    LET parts == Split(ORG_DOMAINS, ",")
        kept  == SelectSeq(parts, LAMBDA d : Strip(d) # <<>>)
    IN  [k \in 1..Len(kept) |-> StrLower(Strip(kept[k]))]

\* user_email.split("@")[1].lower() if "@" in user_email else ""
UserDomain(user_email) ==
    IF StrContains(user_email, "@") THEN StrLower(Split(user_email, "@")[2]) ELSE <<>>

sharepoint_site_groups == <<DemoOwners, DemoMembers, DemoVisitors>>

\* mutant: every candidate is compared with the directory's groups
AzureAdGroupsUnfiltered(groups) == groups

\* [g for g in groups if "@" in g or (len(g) > 30 and not g.startswith("demo "))]
AzureAdGroups(groups) ==
    SelectSeq(groups, LAMBDA g :
        StrContains(g, "@")
        \/ (Len(g) > 30 /\ ~StartsWith(g, <<"d","e","m","o"," ">>)))

(* What the directory does during one call of check_user_group_membership:  *)
(*   kind "token_error"   sharepoint_service.get_access_token() raises      *)
(*   kind "network_error" requests.get raises                               *)
(*   kind "malformed"     response.json() raises, or a group has no string  *)
(*                        displayName                                       *)
(*   kind "response"      a response with `status` and the groups `value`   *)
(* A group of `value` is [displayName, mail]; mail << >> is a missing mail. *)
DirectoryGroups ==
    { <<>>,
      << [displayName |-> <<"G","r","p">>, mail |-> GroupMailUpper] >>,
      << [displayName |-> GroupGuidUpper, mail |-> <<>>] >> }

DirectoryOutcomes ==
    { [kind |-> k, status |-> 0, value |-> <<>>] :
          k \in {"token_error", "network_error", "malformed"} }
    \cup { [kind |-> "response", status |-> 403, value |-> <<>>] }
    \cup { [kind |-> "response", status |-> 200, value |-> v] : v \in DirectoryGroups }

\* whether the call reaches the directory at all (lines 32-36)
CallsDirectory(user_email, groups) ==
    /\ ~(InList(UserDomain(user_email), get_org_domains)
         /\ \E k \in 1..Len(groups) : InList(groups[k], sharepoint_site_groups))
    /\ AzureAdGroups(groups) # <<>>

\* mutant: the directory is asked before the fast path and the filter of
\* line 28 are looked at
DirectoryRequestsBeforeFastPath(user_email, groups) ==
    IF groups # <<>> THEN 1 ELSE 0

\* lines 32-36: the requests one call makes to the directory; the token and
\* the memberOf request are outside any loop
DirectoryRequests(user_email, groups) ==
    IF CallsDirectory(user_email, groups) THEN 1 ELSE 0

check_user_group_membership(user_email, groups, directory) ==
    LET user_domain == UserDomain(user_email)
        org_domains == get_org_domains
        azure_ad_groups == AzureAdGroups(groups)
        user_groups == directory.value
        user_group_names ==
            {StrLower(user_groups[k].displayName) : k \in 1..Len(user_groups)}
        user_group_emails ==
            {StrLower(user_groups[k].mail) :
                 k \in {j \in 1..Len(user_groups) : user_groups[j].mail # <<>>}}
    IN  IF InList(user_domain, org_domains)
           /\ \E k \in 1..Len(groups) : InList(groups[k], sharepoint_site_groups)
        THEN TRUE
        ELSE IF azure_ad_groups = <<>> THEN FALSE
        ELSE IF directory.kind # "response" THEN FALSE     \* except Exception
        ELSE IF directory.status # 200 THEN FALSE
        ELSE \E k \in 1..Len(azure_ad_groups) :
                 \/ StrLower(azure_ad_groups[k]) \in user_group_names
                 \/ StrLower(azure_ad_groups[k]) \in user_group_emails

is_user_in_organization(user_email) ==
    InList(UserDomain(user_email), get_org_domains)

-----------------------------------------------------------------------------
(* app/services/document_permission.py: the Permission Aggregator *)

(* get_group_details(group_id, token): the group read from the directory,   *)
(* or {} when the request fails.                                            *)
GroupDetailsOutcomes ==
    { <<>>,
      [mail |-> GroupMailUpper, userPrincipalName |-> <<>>],
      [mail |-> <<>>, userPrincipalName |-> GroupMail],
      [mail |-> <<>>, userPrincipalName |-> <<>>] }

\* "a or b" on strings
StrOr(a, b) == IF a # <<>> THEN a ELSE b

\* mutant: a granted user is not recorded
GrantedUsersIgnored(entity, users) == users

\* process_granted_entity, lines 149-153
GrantedUsers(entity, users) ==
    LET user == Get(entity, "user", <<>>)
        email == Strip(StrLower(Get(user, "email", <<>>)))
    IN  IF DOMAIN user # {} /\ email # <<>> THEN users \cup {email} ELSE users

\* process_granted_entity, lines 155-166
GrantedSiteGroup(entity, groups) ==
    LET site_group == Get(entity, "siteGroup", <<>>)
        group_display_name == Get(site_group, "displayName", <<>>)
        group_id == Get(site_group, "id", <<>>)
        group_login_name == Get(site_group, "loginName", <<>>)
    IN  IF DOMAIN site_group = {} THEN groups
        ELSE IF group_display_name # <<>> THEN groups \cup {group_display_name}
        ELSE IF group_login_name # <<>> THEN groups \cup {group_login_name}
        ELSE IF group_id # <<>> THEN groups \cup {group_id}
        ELSE groups

\* mutant: the display name of a group is preferred to its email
GrantedGroupByDisplayName(entity, groups, details) ==
    LET group == Get(entity, "group", <<>>)
        group_id == Get(group, "id", <<>>)
        own_email == Get(group, "email", <<>>)
        group_display_name == Get(group, "displayName", <<>>)
        group_email ==
            IF group_id # <<>> /\ own_email = <<>> /\ DOMAIN details # {}
            THEN StrOr(Get(details, "mail", <<>>), Get(details, "userPrincipalName", <<>>))
            ELSE own_email
    IN  IF DOMAIN group = {} THEN groups
        ELSE IF group_display_name # <<>> THEN groups \cup {group_display_name}
        ELSE IF group_email # <<>> THEN groups \cup {Strip(StrLower(group_email))}
        ELSE IF group_id # <<>> THEN groups \cup {group_id}
        ELSE groups

\* process_granted_entity, lines 168-184; details is what get_group_details returns
GrantedGroup(entity, groups, details) ==
    LET group == Get(entity, "group", <<>>)
        group_id == Get(group, "id", <<>>)
        own_email == Get(group, "email", <<>>)
        group_display_name == Get(group, "displayName", <<>>)
        group_email ==
            IF group_id # <<>> /\ own_email = <<>> /\ DOMAIN details # {}
            THEN StrOr(Get(details, "mail", <<>>), Get(details, "userPrincipalName", <<>>))
            ELSE own_email
    IN  IF DOMAIN group = {} THEN groups
        ELSE IF group_email # <<>> THEN groups \cup {Strip(StrLower(group_email))}
        ELSE IF group_display_name # <<>> THEN groups \cup {group_display_name}
        ELSE IF group_id # <<>> THEN groups \cup {group_id}
        ELSE groups

process_granted_entity(entity, res, details) ==
    [res EXCEPT !.users = GrantedUsers(entity, res.users),
                !.groups = GrantedGroup(entity, GrantedSiteGroup(entity, res.groups),
                                        details)]

\* process_permission_entry, lines 125-128
LinkLevel(scope, access_level) ==
    IF scope = "anonymous" THEN "public"
    ELSE IF scope = "organization" THEN "organization"
    ELSE access_level

\* process_permission_entry, lines 112-128
ProcessLink(permission, res) ==
    LET link == Get(permission, "link", <<>>)
        scope == Get(link, "scope", "")
        sharing_link ==
            [type |-> Get(link, "type", ""),
             scope |-> scope,
             webUrl |-> Get(link, "webUrl", ""),
             application |-> Get(Get(link, "application", <<>>), "id", "")]
    IN  IF DOMAIN link = {} THEN res
        ELSE [res EXCEPT !.sharing_links = Append(@, sharing_link),
                         !.access_level = LinkLevel(scope, @)]

RECURSIVE ProcessIdentities(_, _, _)
ProcessIdentities(identities, res, details) ==
    IF identities = <<>> THEN res
    ELSE ProcessIdentities(Tail(identities),
                           process_granted_entity(Head(identities), res, details),
                           details)

process_permission_entry(permission, res, details) ==
    LET r1 == ProcessLink(permission, res)
        granted_to_v2 == Get(permission, "grantedToV2", <<>>)
        r2 == IF DOMAIN granted_to_v2 # {}
              THEN process_granted_entity(granted_to_v2, r1, details) ELSE r1
        granted_to == Get(permission, "grantedTo", <<>>)
        r3 == IF DOMAIN granted_to # {}
              THEN process_granted_entity(granted_to, r2, details) ELSE r2
        r4 == ProcessIdentities(Get(permission, "grantedToIdentities", <<>>), r3, details)
    IN  IF "inheritedFrom" \in DOMAIN permission /\ DOMAIN permission.inheritedFrom # {}
        THEN [r4 EXCEPT !.inheritance = TRUE]
        ELSE r4

\* mutant: the scan of the recorded links is left out
LinkScanSkipped(sharing_links, access_level) == access_level

\* get_document_permissions, lines 91-97: the scan of the recorded links
RECURSIVE LinkScan(_, _)
LinkScan(sharing_links, access_level) ==
    IF sharing_links = <<>> THEN access_level
    ELSE IF Head(sharing_links).scope = "anonymous" THEN "public"
    ELSE IF Head(sharing_links).scope = "organization" /\ access_level # "public"
         THEN LinkScan(Tail(sharing_links), "organization")
    ELSE LinkScan(Tail(sharing_links), access_level)

\* mutant: the grants override the level the links gave
RestrictedIfGrantedAnyLevel(users, groups, access_level) ==
    IF users # <<>> \/ groups # <<>> THEN "restricted" ELSE access_level

\* mutant: only the users are looked at
RestrictedIfUsers(users, groups, access_level) ==
    IF users # <<>> /\ access_level = "private" THEN "restricted" ELSE access_level

\* get_document_permissions, lines 99-101
RestrictedIfGranted(users, groups, access_level) ==
    IF (users # <<>> \/ groups # <<>>) /\ access_level = "private"
    THEN "restricted" ELSE access_level

\* list(a_set): the elements in an order the code does not control
ListsOf(S) ==
    {q \in [1..Cardinality(S) -> S] : \A x \in S : \E k \in 1..Cardinality(S) : q[k] = x}

-----------------------------------------------------------------------------
(* app/services/agent.py: has_document_access *)

AccessLevels == <<"private", "restricted", "organization", "public">>

PermissionFields == {"authorized_users", "authorized_groups", "access_level"}

\* line 197: any(field in metadata for field in [...])
HasPermissionFields(metadata) == PermissionFields \cap DOMAIN metadata # {}

\* mutant: a chunk without permission metadata is treated as open
NoPermissionFieldsDecisionOpen == TRUE

\* line 198: the decision for a chunk that carries no permission field
NoPermissionFieldsDecision == FALSE

\* mutant: the domain is compared as typed, without .lower()
OrganizationAccessCaseSensitive(user_email) ==
    /\ StrContains(user_email, "@")
    /\ InList(Split(user_email, "@")[2], get_org_domains)

\* lines 205-208
OrganizationAccess(user_email) == InList(UserDomain(user_email), get_org_domains)

\* lines 210-215 and 221-226: the list a metadata value stands for
AsList(value) ==
    IF value.kind = "str"
    THEN LET parsed == JsonLoads(Replace(value.text, "'", Quote))
         IN  IF parsed.ok THEN parsed.items ELSE <<value.text>>
    ELSE value.items

\* metadata.get("authorized_users", []) and its normalisation
AuthorizedUsers(metadata) == AsList(Get(metadata, "authorized_users", PyList(<<>>)))

\* metadata.get("authorized_groups", []) and its normalisation
AuthorizedGroups(metadata) == AsList(Get(metadata, "authorized_groups", PyList(<<>>)))

\* mutant: the stored entries are compared without .lower()
UserListedCaseSensitive(user_email, authorized_users) ==
    InList(StrLower(user_email), authorized_users)

\* lines 217-218: user_email.lower() in [u.lower() for u in authorized_users]
UserListed(user_email, authorized_users) ==
    InList(StrLower(user_email),
           [k \in 1..Len(authorized_users) |-> StrLower(authorized_users[k])])

\* lines 228-230: the Group Membership Resolver is consulted
GroupAccess(user_email, authorized_groups, directory) ==
    IF authorized_groups # <<>>
    THEN check_user_group_membership(user_email, authorized_groups, directory)
    ELSE FALSE

\* mutant: "public" is not recognised and falls through to the lists
has_document_access_without_public(metadata, user_email, directory) ==
    IF user_email = <<>> THEN FALSE
    ELSE IF ~HasPermissionFields(metadata) THEN NoPermissionFieldsDecision
    ELSE IF Get(metadata, "access_level", "private") = "organization"
         THEN OrganizationAccess(user_email)
    ELSE IF UserListed(user_email, AuthorizedUsers(metadata)) THEN TRUE
    ELSE GroupAccess(user_email, AuthorizedGroups(metadata), directory)

has_document_access(metadata, user_email, directory) ==
    IF user_email = <<>> THEN FALSE
    ELSE IF ~HasPermissionFields(metadata) THEN NoPermissionFieldsDecision
    ELSE LET access_level == Get(metadata, "access_level", "private")
         IN  IF access_level = "public" THEN TRUE
             ELSE IF access_level = "organization" THEN OrganizationAccess(user_email)
             ELSE IF UserListed(user_email, AuthorizedUsers(metadata)) THEN TRUE
             ELSE GroupAccess(user_email, AuthorizedGroups(metadata), directory)

\* line 217 iterates authorized_users: a None there raises TypeError
has_document_access_raises(metadata, user_email) ==
    /\ user_email # <<>>
    /\ HasPermissionFields(metadata)
    /\ Get(metadata, "access_level", "private") \notin {"public", "organization"}
    /\ Get(metadata, "authorized_users", PyList(<<>>)).kind = "none"

\* whether has_document_access reaches the directory request
AccessCallsDirectory(metadata, user_email) ==
    /\ user_email # <<>>
    /\ HasPermissionFields(metadata)
    /\ Get(metadata, "access_level", "private") \notin {"public", "organization"}
    /\ ~UserListed(user_email, AuthorizedUsers(metadata))
    /\ CallsDirectory(user_email, AuthorizedGroups(metadata))

\* lines 228-230: the one call of check_user_group_membership, when the
\* decision gets as far as the groups
AccessDirectoryRequests(metadata, user_email) ==
    IF /\ user_email # <<>>
       /\ HasPermissionFields(metadata)
       /\ Get(metadata, "access_level", "private") \notin {"public", "organization"}
       /\ ~UserListed(user_email, AuthorizedUsers(metadata))
       /\ AuthorizedGroups(metadata) # <<>>
    THEN DirectoryRequests(user_email, AuthorizedGroups(metadata))
    ELSE 0

-----------------------------------------------------------------------------
(* app/services/sharepoint_service.py: check_user_permission, on the record  *)
(* get_document_permissions returned                                        *)

\* mutant: a user outside the organization is still looked for in the lists
check_user_permission_then_lists(permission_data, user_email, directory) ==
    LET access_level == Get(permission_data, "access_level", "private")
        authorized_users == Get(permission_data, "users", <<>>)
        authorized_groups == Get(permission_data, "groups", <<>>)
    IN  IF access_level = "public" THEN TRUE
        ELSE IF access_level = "organization" /\ is_user_in_organization(user_email)
             THEN TRUE
        ELSE IF UserListed(user_email, authorized_users) THEN TRUE
        ELSE IF authorized_groups # <<>>
             THEN check_user_group_membership(user_email, authorized_groups, directory)
        ELSE FALSE

check_user_permission(permission_data, user_email, directory) ==
    LET access_level == Get(permission_data, "access_level", "private")
        authorized_users == Get(permission_data, "users", <<>>)
        authorized_groups == Get(permission_data, "groups", <<>>)
    IN  IF access_level = "public" THEN TRUE
        ELSE IF access_level = "organization" THEN is_user_in_organization(user_email)
        ELSE IF UserListed(user_email, authorized_users) THEN TRUE
        ELSE IF authorized_groups # <<>>
             THEN check_user_group_membership(user_email, authorized_groups, directory)
        ELSE FALSE

PermissionCallsDirectory(permission_data, user_email) ==
    /\ Get(permission_data, "access_level", "private") \notin {"public", "organization"}
    /\ ~UserListed(user_email, Get(permission_data, "users", <<>>))
    /\ CallsDirectory(user_email, Get(permission_data, "groups", <<>>))

\* update_document_in_database, lines 512-514: the record as chunk metadata fields
PermissionDataOf(metadata) ==
    [users |-> metadata.authorized_users.items,
     groups |-> metadata.authorized_groups.items,
     access_level |-> metadata.access_level]

-----------------------------------------------------------------------------
(* The access decision on one input *)

NotCalled == [kind |-> "not_called", status |-> 0, value |-> <<>>]

StoredUsers  == {OrgUser, OrgUserUpper, PartnerUser, ApostropheUser}
StoredGroups == {DemoMembers, GroupMail, GroupGuid}

UserEmails ==
    {<<>>, OrgUser, OrgUserUpper, PartnerUser, NoAtUser, TwoAtUser, ApostropheUser}

\* chunk metadata: with the permission fields, without access_level, and from
\* before permission metadata existed
AccessMetadata ==
    { [documentId |-> "doc", authorized_users |-> PyList(us),
       authorized_groups |-> PyList(gs), access_level |-> AccessLevels[l]] :
          us \in SeqsUpTo(StoredUsers, MaxUsers),
          gs \in SeqsUpTo(StoredGroups, MaxGroups),
          l \in 1..4 }
    \cup { [documentId |-> "doc", authorized_users |-> PyList(us),
            authorized_groups |-> PyList(gs)] :
          us \in SeqsUpTo(StoredUsers, MaxUsers),
          gs \in SeqsUpTo(StoredGroups, MaxGroups) }
    \cup { [documentId |-> "doc", authorized_users |-> PyText(ut),
            authorized_groups |-> PyText(gt), access_level |-> AccessLevels[l]] :
          ut \in {LegacyUsersText, JsonUsersText, BareUserText, EmptyListText},
          gt \in {LegacyGroupsText, EmptyListText},
          l \in 1..4 }
    \cup { [documentId |-> "doc"] }

AccessIdle ==
    /\ a_pc = "idle" /\ a_metadata = <<>> /\ a_email = <<>>
    /\ a_directory = NotCalled /\ a_decision = FALSE

AggIdle ==
    /\ g_pc = "idle" /\ permissions = <<>> /\ g_next = 1 /\ result = <<>>

SearchIdle ==
    /\ pc = "idle" /\ user_context = <<>> /\ n = 0 /\ collection = <<>>
    /\ results = <<>> /\ filtered_results = <<>> /\ cursor = 1
    /\ checked = <<>> /\ requests = <<>> /\ searches = <<>> /\ pool = <<>>
    /\ caught = FALSE
    /\ output = <<>>

ResolverIdle ==
    /\ m_pc = "idle" /\ m_user_email = <<>> /\ m_groups = <<>>
    /\ m_directory = NotCalled /\ m_result = FALSE

GateIdle ==
    /\ DEV_MODE = FALSE /\ request_headers = <<>> /\ credentials = <<>>
    /\ current_user = <<>> /\ s_pc = "idle" /\ documents = <<>>
    /\ s_user_email = <<>> /\ document_id = 0 /\ accessible_documents = <<>>
    /\ s_passed = {}

IndexIdle ==
    /\ sp_versions = <<>> /\ store = <<>> /\ w_pc = <<>> /\ w_args = <<>>
    /\ w_all_documents = <<>> /\ w_inserted = <<>> /\ q_results = <<>>

WebhookIdle ==
    /\ delta_links = <<>> /\ drive_feed = <<>> /\ applied = {} /\ wh_pc = "idle"
    /\ wh_notifications = <<>> /\ wh_resource = <<>> /\ wh_changes = <<>>
    /\ wh_stopped = FALSE

EntityIdle ==
    /\ e_pc = "idle" /\ e_entity = <<>> /\ e_in = <<>> /\ e_details = <<>>
    /\ e_out = <<>>

ChatIdle ==
    /\ threads = <<>> /\ now = 0 /\ started = <<>> /\ continued = <<>>

InitAccess ==
    /\ IndexIdle /\ WebhookIdle /\ ChatIdle /\ EntityIdle
    /\ ORG_DOMAINS \in OrgDomainSettings
    /\ a_pc = "input"
    /\ a_metadata \in AccessMetadata
    /\ a_email \in UserEmails
    /\ a_directory = NotCalled
    /\ a_decision = FALSE
    /\ AggIdle
    /\ SearchIdle
    /\ ResolverIdle
    /\ GateIdle

\* has_document_access(doc, user_email, sharepoint_service)
AccessDecision ==
    /\ a_pc = "input"
    /\ \E d \in DirectoryOutcomes :
          /\ a_directory' = IF AccessCallsDirectory(a_metadata, a_email)
                            THEN d ELSE NotCalled
          /\ a_decision' = has_document_access(a_metadata, a_email, d)
    /\ a_pc' = "agent"
    /\ UNCHANGED <<ORG_DOMAINS, entityVars, indexVars, webhookVars, chatVars,
                   a_metadata, a_email, aggVars, searchVars,
                   resolverVars, gateVars>>

\* SharePointService.check_user_permission(document_id, user_email, drive_id)
PermissionDecision ==
    /\ a_pc = "input"
    /\ PermissionFields \subseteq DOMAIN a_metadata
    /\ a_metadata.authorized_users.kind = "list"
    /\ a_email # <<>>
    /\ \E d \in DirectoryOutcomes :
          /\ a_directory' = IF PermissionCallsDirectory(PermissionDataOf(a_metadata), a_email)
                            THEN d ELSE NotCalled
          /\ a_decision' = check_user_permission(PermissionDataOf(a_metadata), a_email, d)
    /\ a_pc' = "sharepoint"
    /\ UNCHANGED <<ORG_DOMAINS, entityVars, indexVars, webhookVars, chatVars,
                   a_metadata, a_email, aggVars, searchVars,
                   resolverVars, gateVars>>

NextAccess == AccessDecision \/ PermissionDecision

SpecAccess == InitAccess /\ [][NextAccess]_vars

-----------------------------------------------------------------------------
(* Properties of the access decision *)

Rank(level) == CHOOSE l \in 1..4 : AccessLevels[l] = level

\* two strings are equal when letter case is ignored
SameIgnoringCase(s, t) ==
    Len(s) = Len(t) /\ \A k \in 1..Len(s) : LowerChar(s[k]) = LowerChar(t[k])

\* the part of an email after its first "@", up to a further "@" if there is one
PartAfterAt(email) ==
    LET ats == {k \in 1..Len(email) : email[k] = "@"}
    IN  IF ats = {} THEN <<>>
        ELSE LET first == CHOOSE k \in ats : \A m \in ats : k <= m
                 stop  == IF \E k \in ats : k > first
                          THEN CHOOSE k \in ats : k > first /\ \A m \in ats : m > first => k <= m
                          ELSE Len(email) + 1
             IN  SubSeq(email, first + 1, stop - 1)

AllowList == {get_org_domains[k] : k \in 1..Len(get_org_domains)}

DecidedPrivateOrRestricted ==
    /\ a_pc = "agent"
    /\ a_email # <<>>
    /\ "access_level" \in DOMAIN a_metadata
    /\ a_metadata.access_level \in {"private", "restricted"}
    /\ a_metadata.authorized_users.kind = "list"
    /\ a_metadata.authorized_groups.kind = "list"

(* C6: for a private or restricted document and a non-empty user email,     *)
(* has_document_access returns true exactly when the email equals, ignoring *)
(* letter case, an entry of authorized_users, or the Group Membership       *)
(* Resolver reports the user a member of one of authorized_groups; in every *)
(* other case it returns false.                                             *)
C6_PrivateRestrictedDecision ==
    DecidedPrivateOrRestricted =>
        (a_decision <=>
            \/ \E k \in 1..Len(a_metadata.authorized_users.items) :
                   SameIgnoringCase(a_email, a_metadata.authorized_users.items[k])
            \/ /\ a_metadata.authorized_groups.items # <<>>
               /\ check_user_group_membership(a_email, a_metadata.authorized_groups.items,
                                              a_directory))

\* a user listed only in another letter case is allowed
C6_Witness ==
    /\ DecidedPrivateOrRestricted
    /\ a_email = OrgUser
    /\ a_metadata.authorized_users.items = <<PartnerUser, OrgUserUpper>>
    /\ a_metadata.authorized_groups.items = <<>>
    /\ a_decision

DecidedOrganization ==
    /\ a_pc \in {"agent", "sharepoint"}
    /\ a_email # <<>>
    /\ "access_level" \in DOMAIN a_metadata
    /\ a_metadata.access_level = "organization"

(* C7: for a document whose access_level is organization the decision (of   *)
(* has_document_access and of check_user_permission) is true if and only if *)
(* the part of the user email after "@", lowercased, is in the configured   *)
(* organization-domain allow-list; authorized_users and authorized_groups   *)
(* play no part.                                                            *)
C7_OrganizationDecision ==
    DecidedOrganization =>
        (a_decision <=> StrLower(PartAfterAt(a_email)) \in AllowList)

\* a partner user who is listed in authorized_users is denied
C7_Witness ==
    /\ DecidedOrganization
    /\ a_pc = "agent"
    /\ a_email = PartnerUser
    /\ InList(PartnerUser, a_metadata.authorized_users.items)
    /\ ~a_decision

\* the metadata with its access_level replaced
AtLevel(metadata, level) == [metadata EXCEPT !.access_level = level]

DecidedAllowed ==
    /\ a_pc = "agent"
    /\ "access_level" \in DOMAIN a_metadata
    /\ a_decision

(* C8 as claimed: for a fixed user email, authorized_users and              *)
(* authorized_groups, raising access_level along private, restricted,       *)
(* organization, public never turns an allow decision into a deny.          *)
C8_MonotonicInAccessLevel ==
    DecidedAllowed =>
        \A l \in Rank(a_metadata.access_level)..4 :
            has_document_access(AtLevel(a_metadata, AccessLevels[l]), a_email,
                                a_directory)

(* C8 as amended: raising access_level never turns an allow into a deny,    *)
(* except that raising a private or restricted document to organization     *)
(* denies a user whose email domain is outside the organization allow-list. *)
C8_MonotonicExceptToOrganization ==
    DecidedAllowed =>
        \A l \in Rank(a_metadata.access_level)..4 :
            \/ /\ AccessLevels[l] = "organization"
               /\ a_metadata.access_level # "organization"
               /\ StrLower(PartAfterAt(a_email)) \notin AllowList
            \/ has_document_access(AtLevel(a_metadata, AccessLevels[l]), a_email,
                                   a_directory)

\* an allowed group member of a restricted document, which stays allowed as public
C8_Witness ==
    /\ DecidedAllowed
    /\ a_metadata.access_level = "restricted"
    /\ a_email = PartnerUser
    /\ a_metadata.authorized_groups.items = <<GroupMail>>
    /\ a_directory.kind = "response"

-----------------------------------------------------------------------------
(* get_document_permissions on the permission entries of one document *)

AnonymousLink ==
    [link |-> [scope |-> "anonymous", type |-> "view", webUrl |-> "https://sp/anon"]]
OrganizationLink ==
    [link |-> [scope |-> "organization", type |-> "edit", webUrl |-> "https://sp/org",
               application |-> [id |-> "app"]]]
UsersLink ==
    [link |-> [scope |-> "users", type |-> "view"],
     grantedToIdentities |->
         << [user |-> [email |-> <<" ","U","@","A",".","c","o">>]],
            [user |-> [email |-> PartnerUser]] >>]
UserGrant ==
    [grantedToV2 |-> [user |-> [email |-> OrgUserUpper]],
     grantedTo |-> [user |-> [email |-> OrgUserUpper]]]
UserNoEmailGrant ==
    [grantedToV2 |-> [user |-> [displayName |-> <<"U">>]]]
SiteGroupGrant ==
    [grantedToV2 |-> [siteGroup |-> [displayName |-> DemoMembers, id |-> <<"5">>,
                                     loginName |-> DemoMembers]],
     inheritedFrom |-> [driveId |-> "drive"]]
GroupGrant ==
    [grantedToV2 |-> [group |-> [id |-> GroupGuid, displayName |-> <<"G","r","p">>]]]
ApplicationGrant ==
    [grantedToV2 |-> [application |-> [id |-> "app", displayName |-> "App"]]]
\* a user whose email is null in the response
NullEmailGrant ==
    [grantedToIdentities |-> << [user |-> [email |-> PyNone, displayName |-> <<"N">>]] >>]

RawEntries ==
    {AnonymousLink, OrganizationLink, UsersLink, UserGrant, UserNoEmailGrant,
     SiteGroupGrant, GroupGrant, ApplicationGrant, NullEmailGrant}

\* line 151: user.get("email", "").lower() on a null email raises AttributeError
EntityRaises(entity) ==
    /\ "user" \in DOMAIN entity
    /\ DOMAIN entity.user # {}
    /\ Get(entity.user, "email", <<>>) = PyNone

\* lines 130-140: whether processing the entry raises
EntryRaises(permission) ==
    LET granted_to_identities == Get(permission, "grantedToIdentities", <<>>)
    IN  \/ EntityRaises(Get(permission, "grantedToV2", <<>>))
        \/ EntityRaises(Get(permission, "grantedTo", <<>>))
        \/ \E k \in 1..Len(granted_to_identities) : EntityRaises(granted_to_identities[k])

\* lines 76-83
NewResult(raw) ==
    [users |-> {}, groups |-> {}, access_level |-> "private", inheritance |-> FALSE,
     sharing_links |-> <<>>, raw_permissions |-> raw]

\* line 106
ErrorResult ==
    [users |-> <<>>, groups |-> <<>>, access_level |-> "private", error |-> "error"]

InitAgg ==
    /\ IndexIdle /\ WebhookIdle /\ ChatIdle /\ EntityIdle
    /\ ORG_DOMAINS = <<"a",".","c","o">>
    /\ g_pc = "fetch"
    /\ permissions \in SeqsUpTo(RawEntries, MaxEntries)   \* what the endpoint holds
    /\ g_next = 1
    /\ result = <<>>
    /\ AccessIdle
    /\ SearchIdle
    /\ ResolverIdle
    /\ GateIdle

\* lines 66-83: the token, the request, the fresh result
FetchPermissions ==
    /\ g_pc = "fetch"
    /\ \E outcome \in {"ok", "token_error", "request_error", "http_error", "malformed"} :
          \/ /\ outcome = "ok"
             /\ g_pc' = "loop"
             /\ result' = NewResult(permissions)
          \/ /\ outcome = "token_error"       \* line 66 is outside the try
             /\ g_pc' = "raised"
             /\ result' = result
          \* requests.get, raise_for_status or response.json() raises: lines 105-106
          \/ /\ outcome \in {"request_error", "http_error", "malformed"}
             /\ g_pc' = "returned"
             /\ result' = ErrorResult
    /\ UNCHANGED <<ORG_DOMAINS, entityVars, indexVars, webhookVars, chatVars,
                   permissions, g_next, accessVars, searchVars,
                   resolverVars, gateVars>>

\* lines 85-86: one iteration of the for loop
ProcessEntry ==
    /\ g_pc = "loop"
    /\ g_next <= Len(permissions)
    /\ ~EntryRaises(permissions[g_next])
    /\ \E details \in GroupDetailsOutcomes :
          result' = process_permission_entry(permissions[g_next], result, details)
    /\ g_next' = g_next + 1
    /\ UNCHANGED <<ORG_DOMAINS, entityVars, indexVars, webhookVars, chatVars,
                   g_pc, permissions, accessVars, searchVars,
                   resolverVars, gateVars>>

\* lines 85-86 raise inside the try: lines 105-106
ProcessEntryRaises ==
    /\ g_pc = "loop"
    /\ g_next <= Len(permissions)
    /\ EntryRaises(permissions[g_next])
    /\ result' = ErrorResult
    /\ g_pc' = "returned"
    /\ UNCHANGED <<ORG_DOMAINS, entityVars, indexVars, webhookVars, chatVars,
                   permissions, g_next, accessVars, searchVars,
                   resolverVars, gateVars>>

\* lines 88-103
ReturnPermissions ==
    /\ g_pc = "loop"
    /\ g_next > Len(permissions)
    /\ \E users \in ListsOf(result.users), groups \in ListsOf(result.groups) :
          result' = [result EXCEPT
                        !.users = users,
                        !.groups = groups,
                        !.access_level =
                            RestrictedIfGranted(users, groups,
                                                LinkScan(result.sharing_links, @))]
    /\ g_pc' = "returned"
    /\ UNCHANGED <<ORG_DOMAINS, entityVars, indexVars, webhookVars, chatVars,
                   permissions, g_next, accessVars, searchVars,
                   resolverVars, gateVars>>

NextAgg == FetchPermissions \/ ProcessEntry \/ ProcessEntryRaises \/ ReturnPermissions

SpecAgg == InitAgg /\ [][NextAgg]_vars

HasLinkScope(permission, scope) ==
    "link" \in DOMAIN permission /\ Get(permission.link, "scope", "") = scope

Aggregated == g_pc = "returned" /\ "error" \notin DOMAIN result

(* C4: for every sequence of raw permission entries with at least one entry *)
(* whose link.scope is "anonymous", get_document_permissions returns        *)
(* access_level "public", whatever other entries are present and in         *)
(* whatever order.                                                          *)
C4_AnonymousLinkIsPublic ==
    (Aggregated /\ \E k \in 1..Len(permissions) : HasLinkScope(permissions[k], "anonymous"))
        => result.access_level = "public"

\* an anonymous link followed by an organization link and a user grant
C4_Witness ==
    /\ Aggregated
    /\ permissions = <<AnonymousLink, OrganizationLink, UserGrant>>
    /\ result.access_level = "public"

(* C5: while the entries of one document are processed one after another,   *)
(* the rank of the record's access_level (private < restricted <            *)
(* organization < public) never decreases from one processed entry to the   *)
(* next; once public, an organization-scope link leaves it public.          *)
C5_LevelNeverDecreases ==
    [][(g_pc = "loop" /\ g_pc' = "loop")
          => Rank(result'.access_level) >= Rank(result.access_level)]_vars

-----------------------------------------------------------------------------
(* app/services/agent.py: document_search_tool inside call_agent *)

\* lines 74-77 and 242: None without a user_context, else its "email"
user_email == IF DOMAIN user_context # {} THEN Get(user_context, "email", <<>>) ELSE <<>>

\* mutant: the dev_mode of the user context is not looked at
SearchIsFilteredIgnoringDevMode == user_email # <<>>

\* line 156: user_email and not (user_context and user_context.get("dev_mode", False))
SearchIsFiltered ==
    /\ user_email # <<>>
    /\ ~(DOMAIN user_context # {} /\ Get(user_context, "dev_mode", FALSE))

\* mutant: the candidate is appended whatever the access check said
FilterAppendUnchecked(filtered, candidate, verdict) == Append(filtered, candidate)

\* lines 159-160: filtered_results.append((doc, score)) under the access check
FilterAppend(filtered, candidate, verdict) ==
    IF verdict THEN Append(filtered, candidate) ELSE filtered

\* mutant: the loop stops one candidate late
LoopBreaksLate(filtered, count) == Len(filtered) > count

\* line 161: the loop stops once n permitted candidates are kept
LoopBreaks(filtered, count) == Len(filtered) >= count

\* line 166: results[:n]
Truncate(list, count) == SubSeq(list, 1, IF Len(list) < count THEN Len(list) ELSE count)

Digits == <<"0","1","2","3","4","5","6","7","8","9">>

\* str(v) of a metadata value: an int becomes its decimal digits, a str is itself
PyStr(key, v) == IF key = "chunkIndex" THEN Digits[v + 1] ELSE v

\* mutant: only authorized_users is stripped
SerializedMetadataKeepsGroups(metadata) ==
    [k \in DOMAIN metadata \ {"authorized_users"} |-> PyStr(k, metadata[k])]

\* lines 175-178
SerializedMetadata(metadata) ==
    [k \in DOMAIN metadata \ {"authorized_users", "authorized_groups"} |->
        PyStr(k, metadata[k])]

\* lines 173-183
SerializedDoc(candidate) ==
    [page_content |-> candidate.doc.page_content,
     metadata |-> SerializedMetadata(candidate.doc.metadata),
     source |-> Get(candidate.doc.metadata, "documentName", "Unknown Document"),
     webUrl |-> Get(candidate.doc.metadata, "webUrl", "Unknown URL"),
     docId |-> Get(candidate.doc.metadata, "documentId", "Unknown ID"),
     score |-> candidate.score]

(* The chunks a store can hold: as update_document_in_database and the      *)
(* seeding write them (lists of lowercased users, the groups, the level),   *)
(* and a chunk seeded before permission metadata existed.                   *)
StoredChunk(id, level, users, groups) ==
    [page_content |-> id,
     metadata |-> [documentId |-> id, documentName |-> id, webUrl |-> "https://sp/doc",
                   lastModified |-> "2024", chunkIndex |-> 0,
                   authorized_users |-> PyList(users),
                   authorized_groups |-> PyList(groups),
                   access_level |-> level]]

LegacyChunk ==
    [page_content |-> "legacy",
     metadata |-> [documentId |-> "legacy", documentName |-> "legacy",
                   webUrl |-> "https://sp/doc", lastModified |-> "2023", chunkIndex |-> 1]]
PublicChunk    == StoredChunk("public", "public", <<>>, <<>>)
OrgChunk       == StoredChunk("org", "organization", <<PartnerUser>>, <<>>)
UserChunk      == StoredChunk("user", "restricted", <<OrgUser>>, <<>>)
SiteGroupChunk == StoredChunk("sitegroup", "restricted", <<>>, <<DemoMembers>>)
DirGroupChunk  == StoredChunk("dirgroup", "restricted", <<>>, <<GroupMail>>)
PrivateChunk   == StoredChunk("private", "private", <<>>, <<>>)
\* a chunk whose authorized_users is null in the store
BrokenChunk    ==
    [StoredChunk("broken", "restricted", <<>>, <<>>) EXCEPT
        !.metadata.authorized_users = PyNone]

Chunks ==
    {LegacyChunk, PublicChunk, OrgChunk, UserChunk, SiteGroupChunk, DirGroupChunk,
     PrivateChunk, BrokenChunk}

\* the chunks of a store in the index's order of relevance to the query
Rankings ==
    {q \in SeqsUpTo(Chunks, MaxChunks) :
        \A j, k \in 1..Len(q) : j # k => q[j] # q[k]}

UserContexts ==
    { <<>> } \cup
    { [email |-> e, dev_mode |-> d] : e \in {<<>>, OrgUser, PartnerUser}, d \in BOOLEAN }

\* the score the index gives the candidate at a rank: decreasing with the rank
ScoreAt(rank) == 100 - rank

\* mutant: the exception leaves the tool
ExceptReraises ==
    /\ pc' = "raised"
    /\ UNCHANGED <<caught, output>>

\* lines 168-169: except Exception: return json.dumps([])
ExceptReturnsEmpty ==
    /\ pc' = "returned"
    /\ caught' = TRUE
    /\ output' = <<>>

\* vector_store.similarity_search_with_score(query, k)
similarity_search_with_score(k) ==
    [j \in 1..(IF Len(collection) < k THEN Len(collection) ELSE k) |->
        [doc |-> collection[j], score |-> ScoreAt(j)]]

InitSearch ==
    /\ IndexIdle /\ WebhookIdle /\ ChatIdle /\ EntityIdle
    /\ ORG_DOMAINS = <<"a",".","c","o">>
    /\ pc = "call"
    /\ user_context \in UserContexts
    /\ n \in 1..MaxN
    /\ collection \in Rankings
    /\ results = <<>>
    /\ filtered_results = <<>>
    /\ cursor = 1
    /\ checked = <<>>
    /\ requests = <<>>
    /\ searches = <<>>
    /\ pool = <<>>
    /\ caught = FALSE
    /\ output = <<>>
    /\ AccessIdle
    /\ AggIdle
    /\ ResolverIdle
    /\ GateIdle

\* lines 153-157 and 166: the one similarity search, then the choice of the mode
SimilaritySearch ==
    /\ pc = "call"
    /\ searches' = Append(searches, n * 3)
    /\ \/ /\ pool' = similarity_search_with_score(n * 3)
          /\ IF SearchIsFiltered
             THEN /\ results' = pool'
                  /\ pc' = "filter"
             ELSE /\ results' = Truncate(pool', n)
                  /\ pc' = "serialize"
          /\ UNCHANGED <<caught, output>>
       \/ /\ ExceptReturnsEmpty                     \* the search raises
          /\ UNCHANGED <<pool, results>>
    /\ UNCHANGED <<ORG_DOMAINS, entityVars, indexVars, webhookVars, chatVars,
                   user_context, n, collection, filtered_results, cursor,
                   checked, requests, accessVars, aggVars, resolverVars, gateVars>>

\* lines 158-162: one iteration of the loop over the candidates
FilterCandidate ==
    /\ pc = "filter"
    /\ cursor <= Len(results)
    /\ ~has_document_access_raises(results[cursor].doc.metadata, user_email)
    /\ \E d \in DirectoryOutcomes :
          LET verdict == has_document_access(results[cursor].doc.metadata, user_email, d)
              kept == FilterAppend(filtered_results, results[cursor], verdict)
          IN  /\ checked' = Append(checked, verdict)
              /\ requests' = Append(requests,
                                    AccessDirectoryRequests(results[cursor].doc.metadata,
                                                            user_email))
              /\ filtered_results' = kept
              /\ IF verdict /\ LoopBreaks(kept, n)
                 THEN /\ results' = kept             \* break, then line 164
                      /\ pc' = "serialize"
                      /\ cursor' = cursor
                 ELSE /\ results' = results
                      /\ pc' = pc
                      /\ cursor' = cursor + 1
    /\ UNCHANGED <<ORG_DOMAINS, entityVars, indexVars, webhookVars, chatVars,
                   user_context, n, collection, searches, pool, caught,
                   output, accessVars, aggVars, resolverVars, gateVars>>

\* line 159 raises on the candidate, inside the try of line 153
FilterCandidateRaises ==
    /\ pc = "filter"
    /\ cursor <= Len(results)
    /\ has_document_access_raises(results[cursor].doc.metadata, user_email)
    /\ ExceptReturnsEmpty
    /\ UNCHANGED <<ORG_DOMAINS, entityVars, indexVars, webhookVars, chatVars,
                   user_context, n, collection, results, filtered_results,
                   cursor, checked, requests, searches, pool, accessVars, aggVars,
                   resolverVars, gateVars>>

\* line 164 after the candidates are exhausted
FilterExhausted ==
    /\ pc = "filter"
    /\ cursor > Len(results)
    /\ results' = filtered_results
    /\ pc' = "serialize"
    /\ UNCHANGED <<ORG_DOMAINS, entityVars, indexVars, webhookVars, chatVars,
                   user_context, n, collection, filtered_results, cursor,
                   checked, requests, searches, pool, caught, output, accessVars,
                   aggVars, resolverVars, gateVars>>

\* lines 171-186
SerializeResults ==
    /\ pc = "serialize"
    /\ output' = [j \in 1..Len(results) |-> SerializedDoc(results[j])]
    /\ pc' = "returned"
    /\ UNCHANGED <<ORG_DOMAINS, entityVars, indexVars, webhookVars, chatVars,
                   user_context, n, collection, results, filtered_results,
                   cursor, checked, requests, searches, pool, caught, accessVars,
                   aggVars, resolverVars, gateVars>>

NextSearch ==
    \/ SimilaritySearch
    \/ FilterCandidate
    \/ FilterCandidateRaises
    \/ FilterExhausted
    \/ SerializeResults

SpecSearch == InitSearch /\ [][NextSearch]_vars

-----------------------------------------------------------------------------
(* Properties of the filtered retrieval *)

\* the call was made with a non-empty user email and dev mode off
GatedSearch ==
    /\ DOMAIN user_context # {}
    /\ user_context.email # <<>>
    /\ ~user_context.dev_mode

\* the returned record is the candidate, with its score
Represents(record, candidate) ==
    /\ record.docId = candidate.doc.metadata.documentId
    /\ record.page_content = candidate.doc.page_content
    /\ record.score = candidate.score

\* the examined candidates for which has_document_access returned true
Permitted == {i \in 1..Len(checked) : checked[i]}

\* the position in the pool of the j-th permitted candidate
NthPermitted(j) ==
    CHOOSE i \in Permitted : Cardinality({m \in Permitted : m <= i}) = j

LacksPermissionFields(metadata) ==
    /\ "authorized_users" \notin DOMAIN metadata
    /\ "authorized_groups" \notin DOMAIN metadata
    /\ "access_level" \notin DOMAIN metadata

(* C1: for a call of document_search_tool with a non-empty user email and   *)
(* dev mode off, every document kept and every document returned is a       *)
(* candidate for which has_document_access returned true: no denied and no  *)
(* unchecked candidate reaches the output.                                  *)
C1_OnlyPermittedReturned ==
    GatedSearch =>
        /\ \A j \in 1..Len(filtered_results) :
               \E i \in Permitted : pool[i] = filtered_results[j]
        /\ \A j \in 1..Len(output) :
               \E i \in Permitted : Represents(output[j], pool[i])

\* a search that returned something although a candidate was denied
C1_Witness ==
    /\ GatedSearch
    /\ pc = "returned"
    /\ Len(output) >= 1
    /\ \E i \in 1..Len(checked) : ~checked[i]

(* C2: in every mode each record returned by document_search_tool has a     *)
(* metadata map without authorized_users and authorized_groups, and with    *)
(* access_level and every other metadata key of the stored chunk.           *)
C2_AclKeysStripped ==
    pc = "returned" =>
        \A j \in 1..Len(output) :
            /\ DOMAIN output[j].metadata =
                   DOMAIN results[j].doc.metadata \ {"authorized_users", "authorized_groups"}
            /\ "access_level" \in DOMAIN results[j].doc.metadata =>
                   output[j].metadata.access_level = results[j].doc.metadata.access_level

\* a returned chunk whose stored metadata carried the lists and the level
C2_Witness ==
    /\ pc = "returned"
    /\ Len(output) >= 1
    /\ "authorized_groups" \in DOMAIN results[1].doc.metadata
    /\ results[1].doc.metadata.authorized_groups.items # <<>>
    /\ "access_level" \in DOMAIN output[1].metadata

(* C3: with dev mode off, has_document_access returns false for a document  *)
(* whose metadata has none of authorized_users, authorized_groups and       *)
(* access_level, and such a document never appears in a filtered result.    *)
C3_NoPermissionFieldsDenied ==
    \A i \in 1..Len(pool) :
        LacksPermissionFields(pool[i].doc.metadata) =>
            /\ i <= Len(checked) => ~checked[i]
            /\ GatedSearch =>
                   \A j \in 1..Len(output) : ~Represents(output[j], pool[i])

\* the most relevant candidate has no permission fields, was checked and denied,
\* and the search returned another candidate
C3_Witness ==
    /\ GatedSearch
    /\ pc = "returned"
    /\ Len(checked) >= 1
    /\ LacksPermissionFields(pool[1].doc.metadata)
    /\ ~checked[1]
    /\ Len(output) >= 1

(* C9: a filtered search for n fetches 3 * n candidates once and returns    *)
(* exactly the first min(n, p) permitted candidates of that pool, in their  *)
(* relevance order and with their scores; at most n, and with no second     *)
(* fetch when p < n.                                                        *)
C9_FilteredSearchResult ==
    (GatedSearch /\ pc = "returned" /\ ~caught) =>
        /\ searches = <<3 * n>>
        /\ Len(pool) <= 3 * n
        /\ Len(output) <= n
        /\ Len(output) = Cardinality(Permitted)
        /\ Len(output) < n => Len(checked) = Len(pool)
        /\ \A j \in 1..Len(output) : Represents(output[j], pool[NthPermitted(j)])

\* two were asked for, one of the four candidates is permitted, one fetch was made
C9_Witness ==
    /\ GatedSearch
    /\ pc = "returned"
    /\ n = 2
    /\ Len(pool) = 4
    /\ Len(checked) = 4
    /\ Len(output) = 1
    /\ ~checked[1]
    /\ searches = <<6>>

(* C10: if dev_mode is set or no user_email is given, document_search_tool  *)
(* applies no access decision and returns the first n of the over-fetched   *)
(* candidates in relevance order, whatever their permission metadata.       *)
C10_UnfilteredSearchResult ==
    (pc = "returned" /\ ~GatedSearch) =>
        /\ checked = <<>>
        /\ Len(output) = (IF Len(pool) < n THEN Len(pool) ELSE n)
        /\ \A j \in 1..Len(output) : Represents(output[j], pool[j])

\* in dev mode a chunk without permission metadata is returned, truncated to n
C10_Witness ==
    /\ pc = "returned"
    /\ DOMAIN user_context # {}
    /\ user_context.dev_mode
    /\ user_context.email = PartnerUser
    /\ n = 1
    /\ Len(pool) = 3
    /\ Len(output) = 1
    /\ LacksPermissionFields(pool[1].doc.metadata)

\* the call was made without a user email (no user_context, or an empty email)
\* and without dev mode
MissingEmailSearch ==
    \/ DOMAIN user_context = {}
    \/ /\ user_context.email = <<>>
       /\ ~user_context.dev_mode

\* a document that is not open to everyone
PermissionGated(metadata) == Get(metadata, "access_level", "private") # "public"

(* C11: a search issued with dev mode off and a missing or empty user email *)
(* is treated as deny: it raises no exception and no document other than a  *)
(* public one is returned for it.                                           *)
C11_MissingEmailDenied ==
    MissingEmailSearch =>
        /\ pc # "raised"
        /\ \A j \in 1..Len(output) : \A i \in 1..Len(pool) :
               Represents(output[j], pool[i]) => ~PermissionGated(pool[i].doc.metadata)

-----------------------------------------------------------------------------
(* app/core/auth.py: get_current_user *)

TrueText    == <<"t","r","u","e">>
DevExample  == <<"d","e","v","@","e","x","a","m","p","l","e",".","c","o","m">>
Developer   == <<"D","e","v","e","l","o","p","e","r">>

\* raise HTTPException(status_code=401, ...)
Unauthorized == [status_code |-> 401]

\* lines 41-42: request.headers.get("X-Dev-Mode", "").lower() == "true", and the flag
dev_mode_enabled(headers) ==
    DEV_MODE /\ StrLower(Get(headers, "X-Dev-Mode", <<>>)) = TrueText

\* lines 95-100 and 101-105: the first claim of the payload that is set
FirstClaim(payload, keys) ==
    IF \E k \in 1..Len(keys) : Get(payload, keys[k], <<>>) # <<>>
    THEN LET k == CHOOSE j \in 1..Len(keys) :
                      /\ Get(payload, keys[j], <<>>) # <<>>
                      /\ \A m \in 1..(j - 1) : Get(payload, keys[m], <<>>) = <<>>
         IN  payload[keys[k]]
    ELSE <<>>

(* get_current_user(request, credentials): the user dict, or Unauthorized.  *)
(* token is << >> without a bearer token, else [valid, payload] where valid *)
(* is whether validate_sharepoint_token returns the payload or raises.      *)
get_current_user(headers, token) ==
    IF dev_mode_enabled(headers)
    THEN LET email == Get(headers, "X-User-Email", DevExample)
         IN  IF email = <<>> \/ ~StrContains(email, "@") THEN Unauthorized
             ELSE [email |-> email,
                   name |-> Get(headers, "X-SharePoint-User", Developer),
                   is_authenticated |-> TRUE,
                   dev_mode |-> TRUE]
    ELSE LET sharepoint_user == Get(headers, "X-SharePoint-User", <<>>)
             from_sharepoint ==
                 IF sharepoint_user = <<>> THEN <<>>
                 ELSE IF StrContains(sharepoint_user, "|")
                      THEN LET parts == Split(sharepoint_user, "|") IN parts[Len(parts)]
                 ELSE sharepoint_user
             from_headers == StrOr(from_sharepoint, Get(headers, "X-User-Email", <<>>))
             header_name == StrOr(Get(headers, "X-User-Name", <<>>),
                                  Get(headers, "X-SharePoint-DisplayName", <<>>))
             uses_token == from_headers = <<>> /\ DOMAIN token # {}
             email == IF uses_token /\ token.valid
                      THEN FirstClaim(token.payload,
                                      <<"email", "upn", "unique_name", "preferred_username">>)
                      ELSE from_headers
             user_name == IF uses_token /\ token.valid
                          THEN FirstClaim(token.payload,
                                          <<"name", "given_name", "family_name">>)
                          ELSE header_name
             cleaned == StrLower(Strip(email))
         IN  IF uses_token /\ ~token.valid THEN Unauthorized
             ELSE IF email = <<>> THEN Unauthorized
             ELSE [email |-> cleaned,
                   name |-> StrOr(user_name, Split(cleaned, "@")[1]),
                   is_authenticated |-> TRUE,
                   dev_mode |-> FALSE]

\* the headers a request can carry
RequestHeaders ==
    { [k \in keys |-> IF k = "X-Dev-Mode" THEN dm
                      ELSE IF k = "X-User-Email" THEN ue
                      ELSE <<"m","|","U","@","A",".","c","o">>] :
        keys \in SUBSET {"X-Dev-Mode", "X-User-Email", "X-SharePoint-User"},
        dm \in {TrueText, <<"T","r","u","e">>, <<"f","a","l","s","e">>},
        ue \in {PartnerUser, NoAtUser} }

\* no bearer token, one that does not validate, one whose email claim is blank,
\* one with a upn
BearerTokens ==
    { <<>>,
      [valid |-> FALSE, payload |-> <<>>],
      [valid |-> TRUE, payload |-> [email |-> <<" ">>, name |-> <<"V">>]],
      [valid |-> TRUE, payload |-> [upn |-> PartnerUser]] }

-----------------------------------------------------------------------------
(* app/services/sharepoint_service.py: list_documents and                   *)
(* get_document_content behind get_current_user                            *)

MaxDocs == 2

\* a document of the drive, with the record get_document_permissions returns for it
DriveDocument(id, level, users, groups) ==
    [id |-> id, name |-> id, webUrl |-> "https://sp/doc", lastModifiedDateTime |-> "2024",
     permission_data |-> [users |-> users, groups |-> groups, access_level |-> level]]

DriveDocuments ==
    { DriveDocument("public", "public", <<>>, <<>>),
      DriveDocument("org", "organization", <<>>, <<>>),
      DriveDocument("user", "restricted", <<PartnerUser>>, <<>>),
      DriveDocument("dirgroup", "restricted", <<>>, <<GroupMail>>),
      [DriveDocument("unreadable", "private", <<>>, <<>>) EXCEPT
          !.permission_data = ErrorResult] }

\* documents_response.json().get("value", [])
DriveListings ==
    {q \in SeqsUpTo(DriveDocuments, MaxDocs) :
        \A j, k \in 1..Len(q) : j # k => q[j] # q[k]}

\* mutant: the check of lines 104 and 210 is never made
ServiceSkipsPermissionCheck(email) == FALSE

\* lines 104 and 210: user_email and not settings.DEV_MODE
ServiceChecksPermission(email) == email # <<>> /\ ~DEV_MODE

\* lines 108-113 and 118-123
ListedDocument(doc) ==
    [id |-> doc.id, name |-> Get(doc, "name", "Untitled"), webUrl |-> doc.webUrl,
     lastModified |-> doc.lastModifiedDateTime]

InitGate ==
    /\ IndexIdle /\ WebhookIdle /\ ChatIdle /\ EntityIdle
    /\ ORG_DOMAINS = <<"a",".","c","o">>
    /\ DEV_MODE \in BOOLEAN
    /\ request_headers \in RequestHeaders
    /\ credentials \in BearerTokens
    /\ current_user = <<>>
    /\ s_pc = "request"
    /\ documents \in DriveListings
    /\ s_user_email = <<>>
    /\ document_id = 0
    /\ accessible_documents = <<>>
    /\ s_passed = {}
    /\ AccessIdle
    /\ AggIdle
    /\ SearchIdle
    /\ ResolverIdle

\* Depends(get_current_user)
Authenticate ==
    /\ s_pc = "request"
    /\ current_user' = get_current_user(request_headers, credentials)
    /\ s_pc' = IF current_user' = Unauthorized THEN "rejected" ELSE "authenticated"
    /\ UNCHANGED <<ORG_DOMAINS, entityVars, indexVars, webhookVars, chatVars,
                   DEV_MODE, request_headers, credentials, documents,
                   s_user_email, document_id, accessible_documents, s_passed,
                   accessVars, aggVars, searchVars, resolverVars>>

\* list_documents lines 80-104 and 115-125, called for the user or without an email
ListDocumentsStart ==
    /\ s_pc = "authenticated"
    /\ \E email \in {current_user.email, <<>>}, reachable \in BOOLEAN :
          /\ s_user_email' = email
          /\ IF ~reachable \/ documents = <<>>
             THEN /\ s_pc' = "raised"               \* lines 80-101
                  /\ UNCHANGED <<document_id, accessible_documents>>
             ELSE IF ServiceChecksPermission(email)
                  THEN /\ s_pc' = "list_loop"
                       /\ document_id' = 1
                       /\ accessible_documents' = <<>>
                  ELSE /\ s_pc' = "listed"
                       /\ document_id' = document_id
                       /\ accessible_documents' =
                              [j \in 1..Len(documents) |-> ListedDocument(documents[j])]
    /\ UNCHANGED <<ORG_DOMAINS, entityVars, indexVars, webhookVars, chatVars,
                   DEV_MODE, request_headers, credentials, current_user,
                   documents, s_passed, accessVars, aggVars, searchVars, resolverVars>>

\* lines 106-113: one iteration of the loop
ListDocumentsCheck ==
    /\ s_pc = "list_loop"
    /\ document_id <= Len(documents)
    /\ \E d \in DirectoryOutcomes :
          LET doc == documents[document_id]
              verdict == check_user_permission(doc.permission_data, s_user_email, d)
          IN  /\ accessible_documents' =
                     IF verdict THEN Append(accessible_documents, ListedDocument(doc))
                     ELSE accessible_documents
              /\ s_passed' = IF verdict THEN s_passed \cup {doc.id} ELSE s_passed
    /\ document_id' = document_id + 1
    /\ UNCHANGED <<ORG_DOMAINS, entityVars, indexVars, webhookVars, chatVars,
                   DEV_MODE, request_headers, credentials, current_user,
                   s_pc, documents, s_user_email, accessVars, aggVars, searchVars,
                   resolverVars>>

\* line 114
ListDocumentsReturn ==
    /\ s_pc = "list_loop"
    /\ document_id > Len(documents)
    /\ s_pc' = "listed"
    /\ UNCHANGED <<ORG_DOMAINS, entityVars, indexVars, webhookVars, chatVars,
                   DEV_MODE, request_headers, credentials, current_user,
                   documents, s_user_email, document_id, accessible_documents, s_passed,
                   accessVars, aggVars, searchVars, resolverVars>>

\* get_document_content lines 195-210, for one document of the drive
GetContentStart ==
    /\ s_pc = "authenticated"
    /\ \E email \in {current_user.email, <<>>}, k \in 1..Len(documents),
          reachable \in BOOLEAN :
          /\ s_user_email' = email
          /\ document_id' = k
          /\ s_pc' = IF ~reachable THEN "raised"         \* lines 195-205
                     ELSE IF ServiceChecksPermission(email) THEN "content_check"
                     ELSE "content_fetch"
    /\ UNCHANGED <<ORG_DOMAINS, entityVars, indexVars, webhookVars, chatVars,
                   DEV_MODE, request_headers, credentials, current_user,
                   documents, accessible_documents, s_passed, accessVars, aggVars,
                   searchVars, resolverVars>>

\* lines 211-213
GetContentCheck ==
    /\ s_pc = "content_check"
    /\ \E d \in DirectoryOutcomes :
          LET doc == documents[document_id]
              has_permission == check_user_permission(doc.permission_data, s_user_email, d)
          IN  /\ s_pc' = IF has_permission THEN "content_fetch" ELSE "raised"
              /\ s_passed' = IF has_permission THEN s_passed \cup {doc.id} ELSE s_passed
    /\ UNCHANGED <<ORG_DOMAINS, entityVars, indexVars, webhookVars, chatVars,
                   DEV_MODE, request_headers, credentials, current_user,
                   documents, s_user_email, document_id, accessible_documents,
                   accessVars, aggVars, searchVars, resolverVars>>

\* lines 215-218 and the extraction of the text
GetContentFetch ==
    /\ s_pc = "content_fetch"
    /\ \E fetched \in BOOLEAN : s_pc' = IF fetched THEN "content" ELSE "raised"
    /\ UNCHANGED <<ORG_DOMAINS, entityVars, indexVars, webhookVars, chatVars,
                   DEV_MODE, request_headers, credentials, current_user,
                   documents, s_user_email, document_id, accessible_documents, s_passed,
                   accessVars, aggVars, searchVars, resolverVars>>

NextGate ==
    \/ Authenticate
    \/ ListDocumentsStart
    \/ ListDocumentsCheck
    \/ ListDocumentsReturn
    \/ GetContentStart
    \/ GetContentCheck
    \/ GetContentFetch

SpecGate == InitGate /\ [][NextGate]_vars

\* the request carries an X-Dev-Mode header that reads true
HeaderSaysDevMode ==
    /\ "X-Dev-Mode" \in DOMAIN request_headers
    /\ SameIgnoringCase(request_headers["X-Dev-Mode"], TrueText)

(* C12: get_current_user yields dev_mode = True only when settings.DEV_MODE *)
(* and the X-Dev-Mode header are both true, and whenever one of the two is  *)
(* false every document listed by list_documents and every content handed   *)
(* out by get_document_content to a user with an email has passed           *)
(* check_user_permission for that user.                                     *)
C12_DoubleGate ==
    /\ (s_pc \notin {"request", "rejected"} /\ current_user.dev_mode)
           => (DEV_MODE /\ HeaderSaysDevMode)
    /\ (~(DEV_MODE /\ HeaderSaysDevMode) /\ s_user_email # <<>>) =>
           /\ s_pc = "listed" =>
                  \A j \in 1..Len(accessible_documents) :
                      accessible_documents[j].id \in s_passed
           /\ s_pc = "content" => documents[document_id].id \in s_passed

-----------------------------------------------------------------------------
(* Further properties of the Permission Aggregator *)

\* the entities an entry grants to
GrantedEntities(permission) ==
    {Get(permission, "grantedToV2", <<>>), Get(permission, "grantedTo", <<>>)}
    \cup {Get(permission, "grantedToIdentities", <<>>)[k] :
              k \in 1..Len(Get(permission, "grantedToIdentities", <<>>))}

\* the entity names a user, a site group or a group
NamesPrincipal(entity) == DOMAIN entity \cap {"user", "siteGroup", "group"} # {}

\* the entry is a direct grant: no link, and a user, site group or group named
DirectGrant(permission) ==
    /\ "link" \notin DOMAIN permission
    /\ \E e \in GrantedEntities(permission) : NamesPrincipal(e)

\* some field of the named principal is a non-blank string
HasText(principal, keys) ==
    \E k \in keys : k \in DOMAIN principal /\ \E j \in 1..Len(principal[k]) : principal[k][j] # " "

\* the entity names a user with an email, or a site group or group with a name or id
Identifies(entity) ==
    \/ "user" \in DOMAIN entity /\ HasText(entity.user, {"email"})
    \/ "siteGroup" \in DOMAIN entity
           /\ HasText(entity.siteGroup, {"displayName", "loginName", "id"})
    \/ "group" \in DOMAIN entity /\ HasText(entity.group, {"email", "displayName", "id"})

OnlyDirectGrants ==
    /\ Aggregated
    /\ permissions # <<>>
    /\ \A k \in 1..Len(permissions) : DirectGrant(permissions[k])

(* C13 as claimed: for every non-empty set of raw permission entries that   *)
(* carry only direct grants (naming a user, a site group or a group) and no *)
(* link, get_document_permissions returns access_level "restricted".        *)
C13_DirectGrantsRestricted ==
    OnlyDirectGrants => result.access_level = "restricted"

(* C13, amended: for such a set the returned access_level is "restricted"   *)
(* when some grant names a user with an email or a site group or group with *)
(* a name, an email or an id, and "private" when every grant names only     *)
(* users without an email.                                                  *)
C13_IdentifyingGrantsRestricted ==
    OnlyDirectGrants =>
        result.access_level =
            IF \E k \in 1..Len(permissions) :
                   \E e \in GrantedEntities(permissions[k]) : Identifies(e)
            THEN "restricted" ELSE "private"

\* a user grant and a site group grant were aggregated to restricted
C13_Witness ==
    /\ OnlyDirectGrants
    /\ permissions = <<UserGrant, SiteGroupGrant>>
    /\ result.access_level = "restricted"
    /\ result.users = <<OrgUser>>

(* C14: for every set of raw permission entries in which at least one link  *)
(* has scope "organization" and no link has scope "anonymous", the returned *)
(* access_level is "organization", whether or not user or group grants are  *)
(* present and whatever the order of the entries.                           *)
C14_OrganizationLinkIsOrganization ==
    (/\ Aggregated
     /\ \E k \in 1..Len(permissions) : HasLinkScope(permissions[k], "organization")
     /\ \A k \in 1..Len(permissions) : ~HasLinkScope(permissions[k], "anonymous"))
        => result.access_level = "organization"

\* a user grant before and a group grant after the organization link
C14_Witness ==
    /\ Aggregated
    /\ permissions = <<UserGrant, OrganizationLink, GroupGrant>>
    /\ result.access_level = "organization"
    /\ result.users # <<>>
    /\ result.groups # <<>>

(* C15: when no entry has an anonymous- or organization-scope link, the     *)
(* returned record has access_level "private" exactly when its users and    *)
(* groups are both empty and "restricted" otherwise; and no returned record *)
(* at all has "private" together with a non-empty users or groups list.     *)
C15_PrivateIffNobodyNamed ==
    g_pc = "returned" =>
        /\ (\A k \in 1..Len(permissions) :
                /\ ~HasLinkScope(permissions[k], "anonymous")
                /\ ~HasLinkScope(permissions[k], "organization"))
               => result.access_level =
                      IF result.users = <<>> /\ result.groups = <<>>
                      THEN "private" ELSE "restricted"
        /\ result.access_level = "private"
               => (result.users = <<>> /\ result.groups = <<>>)

\* a users-scope link with its identities and a site group: restricted
C15_Witness ==
    /\ Aggregated
    /\ permissions = <<UsersLink, SiteGroupGrant>>
    /\ result.access_level = "restricted"
    /\ Len(result.users) = 2
    /\ result.groups = <<DemoMembers>>

(* C20: get_document_permissions never raises: whatever fails while the raw *)
(* permissions are obtained or processed, it returns; and a record returned *)
(* with an error field has access_level "private", users [] and groups [].  *)
C20_AggregationNeverRaises ==
    /\ g_pc # "raised"
    /\ (g_pc = "returned" /\ "error" \in DOMAIN result) =>
           /\ result.access_level = "private"
           /\ result.users = <<>>
           /\ result.groups = <<>>

-----------------------------------------------------------------------------
(* The legacy encoding of the lists *)

RECURSIVE Flatten(_)
Flatten(parts) == IF parts = <<>> THEN <<>> ELSE Head(parts) \o Flatten(Tail(parts))

\* Python's repr of a str without backslashes or control characters: single
\* quotes, or double quotes when the string has an apostrophe and no double quote
PyStrRepr(str) ==
    IF StrContains(str, "'") /\ ~StrContains(str, Quote)
    THEN <<Quote>> \o str \o <<Quote>>
    ELSE <<"'">>
         \o Flatten([k \in 1..Len(str) |->
                        IF str[k] = "'" THEN <<"\\", "'">> ELSE <<str[k]>>])
         \o <<"'">>

\* Python's str of a list of str: "['a@b.com', 'c@d.com']"
PyListRepr(items) ==
    <<"[">>
    \o Flatten([k \in 1..Len(items) |->
                   (IF k = 1 THEN <<>> ELSE <<",", " ">>) \o PyStrRepr(items[k])])
    \o <<"]">>

\* the metadata with both lists stored in the legacy encoding
LegacyEncoded(metadata) ==
    [metadata EXCEPT !.authorized_users = PyText(PyListRepr(@.items)),
                     !.authorized_groups = PyText(PyListRepr(@.items))]

(* C16: for every list of email strings has_document_access gives the same  *)
(* decision when authorized_users and authorized_groups are stored in the   *)
(* legacy single-quoted string encoding of the lists as when they are       *)
(* stored as native lists; and a string that does not parse after the quote *)
(* normalisation is treated as the one-element list holding that string.    *)
C16_LegacyEncodingEquivalent ==
    /\ (/\ a_pc = "agent"
        /\ PermissionFields \subseteq DOMAIN a_metadata
        /\ a_metadata.authorized_users.kind = "list"
        /\ a_metadata.authorized_groups.kind = "list")
           => a_decision = has_document_access(LegacyEncoded(a_metadata), a_email,
                                               a_directory)
    /\ (/\ a_pc = "agent"
        /\ PermissionFields \subseteq DOMAIN a_metadata
        /\ a_metadata.authorized_users.kind = "str"
        /\ ~JsonLoads(Replace(a_metadata.authorized_users.text, "'", Quote)).ok)
           => a_decision =
                  has_document_access(
                      [a_metadata EXCEPT
                          !.authorized_users = PyList(<<a_metadata.authorized_users.text>>)],
                      a_email, a_directory)

-----------------------------------------------------------------------------
(* check_user_group_membership on one input *)

MaxCandidates == 2

\* a site-local name of more than 30 characters, and a short display name
LongDemoGroup == <<"d","e","m","o"," ">> \o [k \in 1..30 |-> "x"]
ShortGroupName == <<"G","r","p">>

CandidateGroups == {DemoMembers, GroupMail, GroupGuid, LongDemoGroup, ShortGroupName}

\* mutant: only an exception of requests.get is caught
ExceptCatchesRequestErrors(kind) == kind = "network_error"

\* line 51: except Exception
ExceptCatches(kind) == TRUE

InitResolver ==
    /\ IndexIdle /\ WebhookIdle /\ ChatIdle /\ EntityIdle
    /\ ORG_DOMAINS \in OrgDomainSettings
    /\ m_pc = "input"
    /\ m_user_email \in UserEmails
    /\ m_groups \in SeqsUpTo(CandidateGroups, MaxCandidates)
    /\ m_directory = NotCalled
    /\ m_result = FALSE
    /\ AccessIdle
    /\ AggIdle
    /\ SearchIdle
    /\ GateIdle

\* lines 19-30: the call returns before the token is asked for
MembershipWithoutDirectory ==
    /\ m_pc = "input"
    /\ ~CallsDirectory(m_user_email, m_groups)
    /\ m_result' = check_user_group_membership(m_user_email, m_groups, NotCalled)
    /\ m_pc' = "returned"
    /\ UNCHANGED <<ORG_DOMAINS, entityVars, indexVars, webhookVars, chatVars,
                   m_user_email, m_groups, m_directory,
                   accessVars, aggVars, searchVars, gateVars>>

\* lines 32-52: the token, the request, the response and the comparison
MembershipWithDirectory ==
    /\ m_pc = "input"
    /\ CallsDirectory(m_user_email, m_groups)
    /\ \E d \in DirectoryOutcomes :
          /\ m_directory' = d
          /\ IF d.kind # "response" /\ ~ExceptCatches(d.kind)
             THEN /\ m_pc' = "raised"
                  /\ m_result' = m_result
             ELSE /\ m_pc' = "returned"
                  /\ m_result' = check_user_group_membership(m_user_email, m_groups, d)
    /\ UNCHANGED <<ORG_DOMAINS, entityVars, indexVars, webhookVars, chatVars,
                   m_user_email, m_groups,
                   accessVars, aggVars, searchVars, gateVars>>

NextResolver == MembershipWithoutDirectory \/ MembershipWithDirectory

SpecResolver == InitResolver /\ [][NextResolver]_vars

\* the directory failed: the token, the request, the status or the response
DirectoryFailed ==
    \/ m_directory.kind \in {"token_error", "network_error", "malformed"}
    \/ m_directory.kind = "response" /\ m_directory.status # 200

(* C17: check_user_group_membership is fail-closed: when obtaining the      *)
(* token or calling the directory raises, when the directory answers with a *)
(* status other than 200, or when the response is malformed, the function   *)
(* returns false, and no exception propagates to the caller.               *)
C17_ResolverFailsClosed ==
    /\ m_pc # "raised"
    /\ (m_pc # "input" /\ DirectoryFailed) => (m_pc = "returned" /\ ~m_result)

\* the token could not be obtained for a candidate the directory could resolve
C17_Witness ==
    /\ m_pc = "returned"
    /\ m_directory.kind = "token_error"
    /\ m_groups = <<GroupMail>>
    /\ m_user_email = OrgUser
    /\ ~m_result

\* the candidate is one of the fixed site-local group names
SiteLocalName(group) == group \in {DemoOwners, DemoMembers, DemoVisitors}

\* the candidate can be resolved by the directory
DirectoryResolvable(group) ==
    \/ \E k \in 1..Len(group) : group[k] = "@"
    \/ Len(group) > 30 /\ SubSeq(group, 1, 5) # <<"d","e","m","o"," ">>

\* the user's email domain is in the allow-list and a candidate is site-local
FastPathCase ==
    /\ \E a \in AllowList : SameIgnoringCase(PartAfterAt(m_user_email), a)
    /\ \E k \in 1..Len(m_groups) : SiteLocalName(m_groups[k])

\* the directory answered, and a resolvable candidate is a returned group's
\* displayName or mail, ignoring case
DirectoryCase ==
    /\ m_directory.kind = "response"
    /\ m_directory.status = 200
    /\ \E k \in 1..Len(m_groups) : \E j \in 1..Len(m_directory.value) :
          /\ DirectoryResolvable(m_groups[k])
          /\ \/ SameIgnoringCase(m_groups[k], m_directory.value[j].displayName)
             \/ /\ m_directory.value[j].mail # <<>>
                /\ SameIgnoringCase(m_groups[k], m_directory.value[j].mail)

(* C18: check_user_group_membership returns true exactly when (a) the       *)
(* user's email domain is in the organization allow-list and some candidate *)
(* is a fixed site-local group name, or (b) the directory call succeeds and *)
(* some directory-resolvable candidate equals, ignoring case, a displayName *)
(* or mail of a group returned for the user; otherwise it returns false.    *)
C18_ResolverTrueCases ==
    m_pc = "returned" => (m_result <=> (FastPathCase \/ DirectoryCase))

\* a partner user, a short name the directory also knows and an identifier
\* that the directory returns in another letter case
C18_Witness ==
    /\ m_pc = "returned"
    /\ m_user_email = PartnerUser
    /\ m_groups = <<ShortGroupName, GroupGuid>>
    /\ m_directory.kind = "response"
    /\ m_directory.value # <<>>
    /\ m_directory.value[1].displayName = GroupGuidUpper
    /\ m_result

-----------------------------------------------------------------------------
(* Failures inside the retrieval step *)

\* the access decision cannot be applied to the chunk: its authorized_users is
\* null and its level sends the decision to the lists
UndecidableChunk(metadata) ==
    /\ "authorized_users" \in DOMAIN metadata
    /\ metadata.authorized_users = PyNone
    /\ "access_level" \in DOMAIN metadata => metadata.access_level \in {"private", "restricted"}

\* the filter loop came to a candidate on which the access decision raises
ReachedUndecidable ==
    /\ GatedSearch
    /\ Len(checked) < Len(pool)
    /\ Cardinality(Permitted) < n
    /\ UndecidableChunk(pool[Len(checked) + 1].doc.metadata)

(* C19: a failure inside the retrieval step, whether the similarity search  *)
(* fails or an error is raised while the access decision is applied to a    *)
(* candidate, makes document_search_tool return an empty list: no exception *)
(* leaves the tool.                                                         *)
C19_RetrievalFailureReturnsEmpty ==
    /\ pc # "raised"
    /\ caught => (pc = "returned" /\ output = <<>>)
    /\ (pc = "returned" /\ ReachedUndecidable) => (caught /\ output = <<>>)

\* a permitted candidate had been kept when the decision raised on the next one
C19_Witness ==
    /\ pc = "returned"
    /\ caught
    /\ ReachedUndecidable
    /\ Len(checked) >= 1
    /\ checked[1]
    /\ filtered_results # <<>>
    /\ output = <<>>

-----------------------------------------------------------------------------
(* app/services/sharepoint_service.py: the document store under             *)
(* update_document_in_database, delete_document_from_database and queries.  *)
(* The calls run in workers (server processes or threads) that share the    *)
(* collection; the code holds no lock and opens no transaction.             *)

MaxWorkers  == 2    \* calls that may be running at the same time
MaxParts    == 2    \* chunks text_splitter.split_text makes of one content
MaxVersions == 2    \* versions of the drive's document during a behaviour
MaxQueries  == 2    \* similarity searches during a behaviour

Workers == 1..MaxWorkers

IndexedDocument == "doc"
OtherDocument   == "other"

\* permission records get_document_permissions returns for the document
RestrictedRecord ==
    [users |-> <<OrgUser>>, groups |-> <<>>, access_level |-> "restricted"]

PublicRecord ==
    [users |-> <<>>, groups |-> <<>>, access_level |-> "public"]

DrivePermissions == {RestrictedRecord, PublicRecord}

\* one version of the drive item: deleted, or a content that splits into
\* `parts` chunks (0 for an empty file) under a permission record
DeletedVersion == [deleted |-> TRUE, parts |-> 0, permission |-> PublicRecord]

DriveVersions ==
    { [deleted |-> FALSE, parts |-> k, permission |-> p] :
          k \in 0..MaxParts, p \in DrivePermissions }
    \cup {DeletedVersion}

\* lines 506-515: the metadata of chunk `index` (documentName and webUrl left out)
ChunkMetadata(doc_id, last_modified, index, permission_data) ==
    [documentId |-> doc_id,
     lastModified |-> last_modified,
     chunkIndex |-> index,
     authorized_users |-> PyList(Get(permission_data, "users", <<>>)),
     authorized_groups |-> PyList(Get(permission_data, "groups", <<>>)),
     access_level |-> Get(permission_data, "access_level", "private")]

\* lines 504-516: all_documents for a content of `parts` chunks
AllDocuments(doc_id, last_modified, parts, permission_data) ==
    [k \in 1..parts |-> ChunkMetadata(doc_id, last_modified, k - 1, permission_data)]

\* collection.delete_many({"documentId": document_id}), lines 531 and 555
DeleteMany(chunks, doc_id) ==
    [c \in {x \in DOMAIN chunks : x.documentId # doc_id} |-> chunks[c]]

\* one document inserted by insert_many
InsertOne(chunks, document) == chunks (+) SetToBag({document})

\* the chunks of one document in the collection
ChunksOf(chunks, doc_id) ==
    {c \in DOMAIN chunks : c.documentId = doc_id}

\* the collection after the document was indexed from version number v
Seeded(v, version) ==
    SetToBag({ChunkMetadata(OtherDocument, 1, 0, PublicRecord)}
             \cup {AllDocuments(IndexedDocument, v, version.parts, version.permission)[k] :
                       k \in 1..version.parts})

\* the document as it was when the collection was seeded
SeededVersion == [deleted |-> FALSE, parts |-> MaxParts, permission |-> RestrictedRecord]

NoCall == [op |-> "none"]

InitIndex ==
    /\ AccessIdle /\ AggIdle /\ SearchIdle /\ ResolverIdle /\ GateIdle
    /\ WebhookIdle /\ ChatIdle /\ EntityIdle
    /\ ORG_DOMAINS = <<"a",".","c","o">>
    /\ sp_versions = <<SeededVersion>>
    /\ store = Seeded(1, SeededVersion)
    /\ w_pc = [w \in Workers |-> "idle"]
    /\ w_args = [w \in Workers |-> NoCall]
    /\ w_all_documents = [w \in Workers |-> <<>>]
    /\ w_inserted = [w \in Workers |-> 0]
    /\ q_results = {}

\* the drive's document is edited, re-shared or deleted in SharePoint
SharePointChange ==
    /\ Len(sp_versions) < MaxVersions
    /\ \E version \in DriveVersions :
          /\ version # sp_versions[Len(sp_versions)]
          /\ sp_versions' = Append(sp_versions, version)
    /\ UNCHANGED <<ORG_DOMAINS, entityVars, accessVars, aggVars, searchVars, resolverVars, gateVars,
                   webhookVars, chatVars,
                   store, w_pc, w_args, w_all_documents, w_inserted, q_results>>

\* process_webhook_notification lines 398-419 on a change of the document:
\* a deleted item goes to delete_document_from_database, any other to
\* get_document_content (line 406, the content as it is now) and
\* update_document_in_database
StartChange(w) ==
    /\ w_pc[w] \in {"idle", "returned"}
    /\ LET current == sp_versions[Len(sp_versions)]
       IN  IF current.deleted
           THEN /\ w_args' = [w_args EXCEPT ![w] =
                                 [op |-> "delete", document_id |-> IndexedDocument]]
                /\ w_pc' = [w_pc EXCEPT ![w] = "delete_document"]
           ELSE /\ w_args' = [w_args EXCEPT ![w] =
                                 [op |-> "update", document_id |-> IndexedDocument,
                                  content |-> current.parts,
                                  last_modified |-> Len(sp_versions)]]
                /\ w_pc' = [w_pc EXCEPT ![w] = "update"]
    /\ w_all_documents' = [w_all_documents EXCEPT ![w] = <<>>]
    /\ w_inserted' = [w_inserted EXCEPT ![w] = 0]
    /\ UNCHANGED <<ORG_DOMAINS, entityVars, accessVars, aggVars, searchVars, resolverVars, gateVars,
                   webhookVars, chatVars, sp_versions, store, q_results>>

\* update_document_in_database lines 493-528: split, read the permissions as
\* they are now, build all_documents; nothing to store returns at line 520
PrepareDocuments(w) ==
    /\ w_pc[w] = "update"
    /\ LET current == sp_versions[Len(sp_versions)]
           args == w_args[w]
       IN  \E permission_data \in {current.permission} :
              LET all_documents == AllDocuments(args.document_id, args.last_modified,
                                                args.content, permission_data)
              IN  /\ w_all_documents' = [w_all_documents EXCEPT ![w] = all_documents]
                  /\ w_pc' = [w_pc EXCEPT ![w] =
                                 IF all_documents = <<>> THEN "returned" ELSE "delete_many"]
    /\ UNCHANGED <<ORG_DOMAINS, entityVars, accessVars, aggVars, searchVars, resolverVars, gateVars,
                   webhookVars, chatVars, sp_versions, store, w_args, w_inserted,
                   q_results>>

\* get_document_permissions (token acquisition, line 501), get_embedding_model
\* (528), delete_many (531) or the embedding call inside from_documents (534)
\* raises before anything is written: the except of line 544 returns
UpdateRaises(w) ==
    /\ w_pc[w] \in {"update", "delete_many", "from_documents"}
    /\ w_pc' = [w_pc EXCEPT ![w] = "returned"]
    /\ w_all_documents' = [w_all_documents EXCEPT ![w] = <<>>]   \* the locals are gone
    /\ w_inserted' = [w_inserted EXCEPT ![w] = 0]
    /\ UNCHANGED <<ORG_DOMAINS, entityVars, accessVars, aggVars, searchVars, resolverVars, gateVars,
                   webhookVars, chatVars, sp_versions, store, w_args, q_results>>

\* line 531
DeleteExisting(w) ==
    /\ w_pc[w] = "delete_many"
    /\ store' = DeleteMany(store, w_args[w].document_id)
    /\ w_pc' = [w_pc EXCEPT ![w] = "from_documents"]
    /\ UNCHANGED <<ORG_DOMAINS, entityVars, accessVars, aggVars, searchVars, resolverVars, gateVars,
                   webhookVars, chatVars, sp_versions, w_args, w_all_documents,
                   w_inserted, q_results>>

\* lines 534-541: from_documents ends in insert_many, which writes the
\* documents one after the other; each write is visible when it is made
InsertDocument(w) ==
    /\ w_pc[w] = "from_documents"
    /\ w_inserted[w] < Len(w_all_documents[w])
    /\ store' = InsertOne(store, w_all_documents[w][w_inserted[w] + 1])
    /\ IF w_inserted[w] + 1 = Len(w_all_documents[w])
       THEN /\ w_pc' = [w_pc EXCEPT ![w] = "returned"]
            /\ w_all_documents' = [w_all_documents EXCEPT ![w] = <<>>]
            /\ w_inserted' = [w_inserted EXCEPT ![w] = 0]
       ELSE /\ w_inserted' = [w_inserted EXCEPT ![w] = @ + 1]
            /\ UNCHANGED <<w_pc, w_all_documents>>
    /\ UNCHANGED <<ORG_DOMAINS, entityVars, accessVars, aggVars, searchVars, resolverVars, gateVars,
                   webhookVars, chatVars, sp_versions, w_args, q_results>>

\* delete_document_from_database, lines 554-561
DeleteDocument(w) ==
    /\ w_pc[w] = "delete_document"
    /\ \/ store' = DeleteMany(store, w_args[w].document_id)
       \/ UNCHANGED store                  \* delete_many raises, line 560
    /\ w_pc' = [w_pc EXCEPT ![w] = "returned"]
    /\ UNCHANGED <<ORG_DOMAINS, entityVars, accessVars, aggVars, searchVars, resolverVars, gateVars,
                   webhookVars, chatVars, sp_versions, w_args, w_all_documents,
                   w_inserted, q_results>>

\* mutant: a query waits while a re-indexing is between its delete and the
\* end of its insert
QueryWaitsForReindexing(positions) ==
    \E w \in DOMAIN positions : positions[w] = "from_documents"

\* agent.py lines 153-166: the search takes no lock and does not look at
\* what the re-indexing is doing
QueryWaits(positions) == FALSE

\* the workers that are between their delete_many and the end of their insert
Reindexing(positions) == {w \in DOMAIN positions : positions[w] = "from_documents"}

\* agent.py line 154: the similarity search reads the collection as it is;
\* recorded is what it finds of the document, and which workers were
\* re-indexing at that moment
Query ==
    /\ Cardinality(q_results) < MaxQueries
    /\ ~QueryWaits(w_pc)
    /\ q_results' = q_results \cup {[found |-> ChunksOf(store, IndexedDocument),
                                     reindexing |-> Reindexing(w_pc)]}
    /\ UNCHANGED <<ORG_DOMAINS, entityVars, accessVars, aggVars, searchVars, resolverVars, gateVars,
                   webhookVars, chatVars, sp_versions, store, w_pc, w_args,
                   w_all_documents, w_inserted>>

NextIndex ==
    \/ SharePointChange
    \/ Query
    \/ \E w \in Workers :
          \/ StartChange(w)
          \/ PrepareDocuments(w)
          \/ UpdateRaises(w)
          \/ DeleteExisting(w)
          \/ InsertDocument(w)
          \/ DeleteDocument(w)

SpecIndex == InitIndex /\ [][NextIndex]_vars

-----------------------------------------------------------------------------
(* Properties of re-indexing *)

\* the permission fields of a stored chunk
FieldsOf(chunk) ==
    <<chunk.authorized_users, chunk.authorized_groups, chunk.access_level>>

\* worker w has returned from update_document_in_database and no other
\* worker has ever run
UpdatedAlone(w) ==
    /\ w_pc[w] = "returned"
    /\ w_args[w].op = "update"
    /\ \A u \in Workers \ {w} : w_pc[u] = "idle"

\* C21: after update_document_in_database has run for a changed document,
\* with nothing else writing to the store, the store holds no chunk of the
\* document from before the change: every chunk of it carries the
\* lastModified the call was given.
C21_UpdateLeavesNoOldChunk ==
    \A w \in Workers :
        UpdatedAlone(w) =>
            \A c \in ChunksOf(store, w_args[w].document_id) :
                c.lastModified = w_args[w].last_modified

\* C22: nothing makes a query wait for a re-indexing: while a worker is
\* between its delete_many and the end of its insert, a query can run, and
\* it records the chunks the store holds at that moment.
C22_QueryRunsDuringReindexing ==
    (Reindexing(w_pc) # {} /\ Cardinality(q_results) < MaxQueries)
        => ENABLED Query

\* a query found nothing of the document, and another only part of the
\* chunks of a version, both while a worker was re-indexing a document that
\* had content in every version
C22_Witness ==
    /\ \A v \in 1..Len(sp_versions) : ~sp_versions[v].deleted /\ sp_versions[v].parts > 0
    /\ \E zero, part \in q_results :
          /\ zero.reindexing # {} /\ zero.found = {}
          /\ part.reindexing # {} /\ part.found # {}
          /\ \E c \in part.found :
                Cardinality({d \in part.found : d.lastModified = c.lastModified})
                    < sp_versions[c.lastModified].parts

\* C23: in every state of the store, and in everything a query found, all
\* chunks of one document carry the same authorized_users,
\* authorized_groups and access_level.
C23_ChunksShareFields ==
    /\ \A c, d \in DOMAIN store : c.documentId = d.documentId => FieldsOf(c) = FieldsOf(d)
    /\ \A r \in q_results : \A c, d \in r.found : FieldsOf(c) = FieldsOf(d)

-----------------------------------------------------------------------------
(* get_document_content: the permission check comes before the content *)

\* get_document_content is running for a given user with settings.DEV_MODE off
ContentForUser ==
    /\ s_pc \in {"content_check", "content_fetch", "content", "raised"}
    /\ document_id \in 1..Len(documents)
    /\ s_user_email # <<>>
    /\ ~DEV_MODE

\* C24: with a user email and settings.DEV_MODE off, get_document_content is
\* at the content request, or past it, only when check_user_permission has
\* returned true for that user and document, which it can only do when the
\* record allows the user; after a false answer the call has raised and the
\* content endpoint is not requested.
C24_ContentOnlyAfterPermission ==
    ContentForUser =>
        LET doc == documents[document_id]
        IN  /\ s_pc \in {"content_fetch", "content"} => doc.id \in s_passed
            /\ doc.id \in s_passed =>
                  \E d \in DirectoryOutcomes :
                      check_user_permission(doc.permission_data, s_user_email, d)
            /\ (s_pc # "content_check" /\ doc.id \notin s_passed) => s_pc = "raised"

\* the content of a restricted document was fetched for a user the check let
\* through
C24_Witness ==
    /\ ContentForUser
    /\ s_pc = "content"
    /\ documents[document_id].permission_data.access_level = "restricted"
    /\ documents[document_id].id \in s_passed

-----------------------------------------------------------------------------
(* app/api/routes/chat.py: start_chat and continue_chat on the threads *)
(* collection                                                          *)

TicksPerSecond == 2   \* datetime.now() is finer than a second
MaxTicks       == 3   \* how far the clock runs
MaxChats       == 2   \* start_chat requests during a behaviour
MaxContinues   == 2   \* continue_chat requests during a behaviour

\* what get_current_user hands to the routes
ChatUsers ==
    { [email |-> e, dev_mode |-> FALSE] : e \in {OrgUser, OrgUserUpper, PartnerUser, <<>>} }
    \cup { [email |-> DevExample, dev_mode |-> TRUE] }

\* line 36: str(int(datetime.now().timestamp())); int() drops the fraction of
\* the second, and str() of an int is one-to-one, so the id is kept as the int
ThreadId(timestamp) == timestamp \div TicksPerSecond

ThreadIds == {ThreadId(t) : t \in 0..MaxTicks}

\* lines 50-56 and 137-143
ThreadRecord(thread_id, user) == [thread_id |-> thread_id, user_email |-> user.email]

\* threads_collection.find_one({"thread_id": thread_id}): the first match, or None
FindOne(collection_of_threads, thread_id) ==
    LET matches == SelectSeq(collection_of_threads, LAMBDA t : t.thread_id = thread_id)
    IN  IF matches = <<>> THEN <<>> ELSE matches[1]

\* lines 144-147: an exception of the lookup that is no HTTPException is
\* printed, and the request goes on to the agent
LookupFailureDenied == FALSE

\* line 123
OwnerMismatch(thread_owner, caller_email) ==
    thread_owner # <<>> /\ StrLower(thread_owner) # StrLower(caller_email)

\* lines 113-155: the status of the response, given what the lookup did
ContinueStatus(user, lookup, thread_info) ==
    IF user.dev_mode THEN 200
    ELSE IF lookup = "raises" THEN (IF LookupFailureDenied THEN 403 ELSE 200)
    ELSE IF thread_info # <<>> /\ OwnerMismatch(thread_info.user_email, user.email) THEN 403
    ELSE 200

InitChat ==
    /\ AccessIdle /\ AggIdle /\ SearchIdle /\ ResolverIdle /\ GateIdle
    /\ IndexIdle /\ WebhookIdle /\ EntityIdle
    /\ ORG_DOMAINS = <<"a",".","c","o">>
    /\ threads = <<>>
    /\ now = 0
    /\ started = <<>>
    /\ continued = <<>>

\* time passes
Tick ==
    /\ now < MaxTicks
    /\ now' = now + 1
    /\ UNCHANGED <<ORG_DOMAINS, entityVars, accessVars, aggVars, searchVars, resolverVars, gateVars,
                   indexVars, webhookVars, threads, started, continued>>

\* start_chat, lines 36-68: the id from the clock, the thread record for a
\* non-dev user (an insert_one that raises is printed, line 60), the agent
StartChat ==
    /\ Len(started) < MaxChats
    /\ \E user \in ChatUsers, stored \in BOOLEAN :
          LET thread_id == ThreadId(now)
          IN  /\ threads' = IF ~user.dev_mode /\ stored
                            THEN Append(threads, ThreadRecord(thread_id, user))
                            ELSE threads
              /\ started' = Append(started, [thread_id |-> thread_id,
                                             user_email |-> user.email,
                                             dev_mode |-> user.dev_mode])
    /\ UNCHANGED <<ORG_DOMAINS, entityVars, accessVars, aggVars, searchVars, resolverVars, gateVars,
                   indexVars, webhookVars, now, continued>>

\* continue_chat, lines 107-155
ContinueChat ==
    /\ Len(continued) < MaxContinues
    /\ \E user \in ChatUsers, thread_id \in ThreadIds, lookup \in {"answers", "raises"},
          stored \in BOOLEAN :
          LET thread_info == FindOne(threads, thread_id)
              status == ContinueStatus(user, lookup, thread_info)
          IN  /\ threads' = IF ~user.dev_mode /\ lookup = "answers" /\ thread_info = <<>>
                               /\ stored
                            THEN Append(threads, ThreadRecord(thread_id, user))
                            ELSE threads
              /\ continued' =
                    Append(continued,
                           [thread_id |-> thread_id,
                            user_email |-> user.email,
                            dev_mode |-> user.dev_mode,
                            owners |-> {threads[k].user_email :
                                           k \in {j \in 1..Len(threads) :
                                                     threads[j].thread_id = thread_id}},
                            lookup |-> lookup,
                            status |-> status,
                            agent |-> status = 200])      \* line 150
    /\ UNCHANGED <<ORG_DOMAINS, entityVars, accessVars, aggVars, searchVars, resolverVars, gateVars,
                   indexVars, webhookVars, now, started>>

NextChat == Tick \/ StartChat \/ ContinueChat

SpecChat == InitChat /\ [][NextChat]_vars

\* C25: for a non-dev caller, continue_chat calls the agent on a thread only
\* if the thread has no recorded owner or a recorded owner equals the caller's
\* email ignoring case; a caller whose email differs from the recorded owner
\* gets 403 and the agent is not called.
C25_AgentOnlyForOwner ==
    \A k \in 1..Len(continued) :
        LET r == continued[k]
            owned == \E o \in r.owners : o # <<>>
            mine == \E o \in r.owners : SameIgnoringCase(o, r.user_email)
        IN  ~r.dev_mode =>
               /\ r.agent => (~owned \/ mine)
               /\ (owned /\ ~mine) => (r.status = 403 /\ ~r.agent)

\* C28: two start_chat calls never receive the same thread_id.
C28_ThreadIdsUnique ==
    \A j, k \in 1..Len(started) :
        j # k => started[j].thread_id # started[k].thread_id

-----------------------------------------------------------------------------
(* Directory requests of one filtered search *)

RECURSIVE SumOf(_)
SumOf(numbers) ==
    IF numbers = <<>> THEN 0 ELSE numbers[1] + SumOf(SubSeq(numbers, 2, Len(numbers)))

\* the groups handed to check_user_group_membership for the k-th candidate
CandidateGroupsAt(k) == AuthorizedGroups(pool[k].doc.metadata)

\* for the searching user and these groups the fast path applies
FastPathFor(email, groups) ==
    /\ \E a \in AllowList : SameIgnoringCase(PartAfterAt(email), a)
    /\ \E k \in 1..Len(groups) : SiteLocalName(groups[k])

\* C26: examining one candidate makes at most one request to the directory,
\* and none when the fast path applies or when no candidate group is
\* directory-resolvable; a filtered search examines at most 3 * n candidates
\* and so makes at most 3 * n directory requests.
C26_DirectoryRequestsBounded ==
    /\ Len(requests) = Len(checked)
    /\ Len(requests) <= 3 * n
    /\ \A k \in 1..Len(requests) :
          /\ requests[k] <= 1
          /\ FastPathFor(user_email, CandidateGroupsAt(k)) => requests[k] = 0
          /\ (\A j \in 1..Len(CandidateGroupsAt(k)) :
                 ~DirectoryResolvable(CandidateGroupsAt(k)[j])) => requests[k] = 0
    /\ SumOf(requests) <= 3 * n

\* a search that examined 3 * n candidates: for one the directory was asked,
\* for another, whose only group is site-local, it was not
C26_Witness ==
    /\ pc = "returned"
    /\ GatedSearch
    /\ Len(requests) = 3 * n
    /\ \E k \in 1..Len(requests) : requests[k] = 1
    /\ \E k \in 1..Len(requests) :
          /\ requests[k] = 0
          /\ CandidateGroupsAt(k) = <<DemoMembers>>

\* ---------------------------------------------------------------------------
\* process_granted_entity applied to one entity (document_permission.py)
\* ---------------------------------------------------------------------------

LoginName == <<"c",":","0","o">>
SiteGroupId == <<"5">>
GroupName == <<"G","r","p">>

\* the siteGroup objects of an entity: every subset of the three fields read
SiteGroupObjects ==
    { [k \in keys |-> IF k = "displayName" THEN DemoMembers
                      ELSE IF k = "loginName" THEN LoginName ELSE SiteGroupId]
        : keys \in SUBSET {"displayName", "loginName", "id"} }

\* the group objects of an entity: every subset of the three fields read
GroupObjects ==
    { [k \in keys |-> IF k = "email" THEN GroupMailUpper
                      ELSE IF k = "displayName" THEN GroupName ELSE GroupGuid]
        : keys \in SUBSET {"id", "email", "displayName"} }

ApplicationObject == [id |-> <<"a","p","p">>, displayName |-> <<"A","p","p">>]

Entities ==
    { [siteGroup |-> sg] : sg \in SiteGroupObjects }
        \cup { [group |-> g] : g \in GroupObjects }
        \cup { [siteGroup |-> sg, group |-> g] :
                 sg \in SiteGroupObjects, g \in GroupObjects }
        \cup { [application |-> ApplicationObject],
               [user |-> [email |-> OrgUserUpper]],
               [user |-> [email |-> OrgUserUpper], application |-> ApplicationObject] }

\* result as get_document_permissions holds it while entries are processed
ResultsSoFar ==
    { [users |-> {}, groups |-> {}],
      [users |-> {PartnerUser}, groups |-> {DemoMembers}] }

NotLookedUp == [called |-> FALSE]

\* line 173: the directory is asked for the group only then
LooksUpGroup(entity) ==
    LET group == Get(entity, "group", <<>>)
    IN  /\ Get(group, "id", <<>>) # <<>>
        /\ Get(group, "email", <<>>) = <<>>

InitEntity ==
    /\ ORG_DOMAINS = <<"a",".","c","o">>
    /\ AccessIdle /\ AggIdle /\ SearchIdle /\ ResolverIdle /\ GateIdle
    /\ IndexIdle /\ WebhookIdle /\ ChatIdle
    /\ e_pc = "input"
    /\ e_entity \in Entities
    /\ e_in \in ResultsSoFar
    /\ e_details = <<>>
    /\ e_out = <<>>

\* process_granted_entity on an entity that needs no directory lookup
GrantWithoutLookup ==
    /\ e_pc = "input"
    /\ ~LooksUpGroup(e_entity)
    /\ e_pc' = "returned"
    /\ e_details' = NotLookedUp
    /\ e_out' = process_granted_entity(e_entity, e_in, <<>>)
    /\ UNCHANGED <<ORG_DOMAINS, accessVars, aggVars, searchVars, resolverVars, gateVars,
                   indexVars, webhookVars, chatVars, e_entity, e_in>>

\* process_granted_entity with get_group_details called: <<>> is the empty dict
\* returned when the request fails
GrantWithLookup ==
    /\ e_pc = "input"
    /\ LooksUpGroup(e_entity)
    /\ \E details \in GroupDetailsOutcomes :
        /\ e_details' = [called |-> TRUE, details |-> details]
        /\ e_out' = process_granted_entity(e_entity, e_in, details)
    /\ e_pc' = "returned"
    /\ UNCHANGED <<ORG_DOMAINS, accessVars, aggVars, searchVars, resolverVars, gateVars,
                   indexVars, webhookVars, chatVars, e_entity, e_in>>

NextEntity == GrantWithoutLookup \/ GrantWithLookup

SpecEntity == InitEntity /\ [][NextEntity]_vars

\* first non-empty text of a sequence of texts, <<>> when there is none
RECURSIVE FirstText(_)
FirstText(texts) ==
    IF texts = <<>> THEN <<>>
    ELSE IF Head(texts) # <<>> THEN Head(texts)
    ELSE FirstText(Tail(texts))

Field(object, key) == IF key \in DOMAIN object THEN object[key] ELSE <<>>

LookedUp(key) ==
    IF e_details.called THEN Field(e_details.details, key) ELSE <<>>

SiteGroupChoice ==
    IF "siteGroup" \in DOMAIN e_entity
    THEN FirstText(<<Field(e_entity.siteGroup, "displayName"),
                     Field(e_entity.siteGroup, "loginName"),
                     Field(e_entity.siteGroup, "id")>>)
    ELSE <<>>

GroupChoice ==
    IF "group" \in DOMAIN e_entity
    THEN FirstText(<<StrLower(FirstText(<<Field(e_entity.group, "email"),
                                          LookedUp("mail"),
                                          LookedUp("userPrincipalName")>>)),
                     Field(e_entity.group, "displayName"),
                     Field(e_entity.group, "id")>>)
    ELSE <<>>

\* C27: process_granted_entity adds to the groups at most one identifier for the
\* siteGroup of an entity (displayName, else loginName, else id) and at most one
\* for its group (the lowercased email, the entry's own or else mail or
\* userPrincipalName from the directory lookup by group id, else displayName,
\* else id); when the lookup fails the fallback is used and the call returns;
\* an application adds nothing to users or groups.
C27_OneIdentifierByPreference ==
    e_pc = "returned" =>
        /\ e_out.groups = e_in.groups \cup ({SiteGroupChoice, GroupChoice} \ {<<>>})
        /\ "user" \notin DOMAIN e_entity => e_out.users = e_in.users
        /\ e_details.called <=>
               /\ "group" \in DOMAIN e_entity
               /\ Field(e_entity.group, "id") # <<>>
               /\ Field(e_entity.group, "email") = <<>>

\* a group without an email whose directory lookup failed, after a site group
\* known by its login name only
C27_Witness ==
    /\ e_pc = "returned"
    /\ e_details = [called |-> TRUE, details |-> <<>>]
    /\ "siteGroup" \in DOMAIN e_entity
    /\ DOMAIN e_entity.siteGroup = {"loginName", "id"}
    /\ DOMAIN e_entity.group = {"id", "displayName"}
    /\ e_in.groups = {DemoMembers}
    /\ e_out.groups = {DemoMembers, LoginName, GroupName}

\* ---------------------------------------------------------------------------
\* The two access decisions on the same record
\* ---------------------------------------------------------------------------

\* the directory answers the other decision may get: the recorded one, or any
\* when the recorded decision made no request
SameDirectory ==
    IF a_directory = NotCalled THEN DirectoryOutcomes ELSE {a_directory}

\* a chunk whose metadata is a permission record as update_document_in_database
\* stores it, asked about by a named user
DerivedFromRecord ==
    /\ PermissionFields \subseteq DOMAIN a_metadata
    /\ a_metadata.authorized_users.kind = "list"
    /\ a_metadata.authorized_groups.kind = "list"
    /\ a_email # <<>>

\* C29: for every permission record and every non-empty user email,
\* check_user_permission on the record and has_document_access on the chunk
\* metadata derived from it (authorized_users = users, authorized_groups =
\* groups, access_level) give the same decision under the same directory answer.
C29_DecisionPathsAgree ==
    /\ a_pc = "sharepoint" =>
          \A d \in SameDirectory :
              has_document_access(a_metadata, a_email, d) = a_decision
    /\ (a_pc = "agent" /\ DerivedFromRecord) =>
          \A d \in SameDirectory :
              check_user_permission(PermissionDataOf(a_metadata), a_email, d) = a_decision

\* an organization-wide record that lists a partner user: check_user_permission
\* denied them, as has_document_access does
C29_Witness ==
    /\ a_pc = "sharepoint"
    /\ a_metadata.access_level = "organization"
    /\ a_email = PartnerUser
    /\ UserListed(a_email, a_metadata.authorized_users.items)
    /\ ~a_decision
    /\ ~has_document_access(a_metadata, a_email, NotCalled)

\* ---------------------------------------------------------------------------
\* app/services/sharepoint_service.py: process_webhook_notification
\* ---------------------------------------------------------------------------

MaxFeed  == 2       \* changes a resource accumulates
MaxItems == 2       \* items of one notification

Resources == {"drives/a/root", "drives/b/root"}

\* item.get("resource") of an item without one, taken as the empty text
NoResource == ""

\* a change of the delta response: a deleted driveItem, a folder, a file, or
\* the item named root
ChangeKinds == {"deleted", "folder", "file", "root"}

\* the changes a delta query from a link returns, by their place in the feed
DeltaResponse(resource, from) ==
    [k \in 1..(Len(drive_feed[resource]) - from) |-> from + k]

\* get_delta_link: the saved link, or None (the first delta query) on an error
DeltaLinks(resource) == {delta_links[resource], 0}

\* whether items with a resource are left after the current one
ItemsLeft == \E k \in 2..Len(wh_notifications) : wh_notifications[k] # NoResource

InitWebhook ==
    /\ ORG_DOMAINS = <<"a",".","c","o">>
    /\ AccessIdle /\ AggIdle /\ SearchIdle /\ ResolverIdle /\ GateIdle
    /\ IndexIdle /\ ChatIdle /\ EntityIdle
    /\ delta_links = [r \in Resources |-> 0]
    /\ drive_feed = [r \in Resources |-> <<>>]
    /\ applied = {}
    /\ wh_pc = "idle"
    /\ wh_notifications = <<>>
    /\ wh_resource = NoResource
    /\ wh_changes = <<>>
    /\ wh_stopped = FALSE

\* an item of a drive is created, changed or deleted in SharePoint
ChangeInDrive ==
    \E r \in Resources, kind \in ChangeKinds :
        /\ Len(drive_feed[r]) < MaxFeed
        /\ drive_feed' = [drive_feed EXCEPT ![r] = Append(@, kind)]
        /\ UNCHANGED <<ORG_DOMAINS, entityVars, accessVars, aggVars, searchVars,
                       resolverVars, gateVars, indexVars, chatVars, delta_links,
                       applied, wh_pc, wh_notifications, wh_resource, wh_changes,
                       wh_stopped>>

\* lines 344-349: a notification with items arrives
ReceiveNotification ==
    /\ wh_pc = "idle"
    /\ \E items \in SeqsUpTo(Resources \cup {NoResource}, MaxItems) :
          /\ items # <<>>
          /\ wh_notifications' = items
    /\ wh_pc' = "item"
    /\ UNCHANGED <<ORG_DOMAINS, entityVars, accessVars, aggVars, searchVars,
                   resolverVars, gateVars, indexVars, chatVars, delta_links,
                   drive_feed, applied, wh_resource, wh_changes, wh_stopped>>

\* lines 355-357: an item without resource is passed over
SkipItem ==
    /\ wh_pc = "item"
    /\ wh_notifications # <<>>
    /\ Head(wh_notifications) = NoResource
    /\ wh_notifications' = Tail(wh_notifications)
    /\ UNCHANGED <<ORG_DOMAINS, entityVars, accessVars, aggVars, searchVars,
                   resolverVars, gateVars, indexVars, chatVars, delta_links,
                   drive_feed, applied, wh_pc, wh_resource, wh_changes, wh_stopped>>

\* lines 363-368: the token or the delta request raises, caught at line 421
DeltaRequestFails ==
    /\ wh_pc = "item"
    /\ wh_notifications # <<>>
    /\ Head(wh_notifications) # NoResource
    /\ wh_pc' = "idle"
    /\ wh_notifications' = <<>>
    /\ UNCHANGED <<ORG_DOMAINS, entityVars, accessVars, aggVars, searchVars,
                   resolverVars, gateVars, indexVars, chatVars, delta_links,
                   drive_feed, applied, wh_resource, wh_changes, wh_stopped>>

\* lines 370-374: the delta response holds no change and the handler returns
EmptyDelta ==
    /\ wh_pc = "item"
    /\ wh_notifications # <<>>
    /\ Head(wh_notifications) # NoResource
    /\ \E from \in DeltaLinks(Head(wh_notifications)) :
          DeltaResponse(Head(wh_notifications), from) = <<>>
    /\ wh_pc' = "idle"
    /\ wh_notifications' = <<>>
    /\ wh_stopped' = (wh_stopped \/ ItemsLeft)
    /\ UNCHANGED <<ORG_DOMAINS, entityVars, accessVars, aggVars, searchVars,
                   resolverVars, gateVars, indexVars, chatVars, delta_links,
                   drive_feed, applied, wh_resource, wh_changes>>

\* lines 364-379: the delta response holds changes; its delta link is saved
\* (save_delta_link swallows an error of the collection) before any of them
\* is handled
FetchDelta ==
    /\ wh_pc = "item"
    /\ wh_notifications # <<>>
    /\ Head(wh_notifications) # NoResource
    /\ LET resource == Head(wh_notifications)
       IN  /\ \E from \in DeltaLinks(resource) :
                 /\ DeltaResponse(resource, from) # <<>>
                 /\ wh_changes' = DeltaResponse(resource, from)
           /\ \E saved \in BOOLEAN :
                 delta_links' = IF saved
                                THEN [delta_links EXCEPT
                                         ![resource] = Len(drive_feed[resource])]
                                ELSE delta_links
           /\ wh_resource' = resource
    /\ wh_pc' = "changes"
    /\ UNCHANGED <<ORG_DOMAINS, entityVars, accessVars, aggVars, searchVars,
                   resolverVars, gateVars, indexVars, chatVars, drive_feed,
                   applied, wh_notifications, wh_stopped>>

ChangeKind == drive_feed[wh_resource][Head(wh_changes)]

\* lines 392-394 and 402-404: the root item and folders change nothing
SkipChange ==
    /\ wh_pc = "changes"
    /\ wh_changes # <<>>
    /\ ChangeKind \in {"root", "folder"}
    /\ wh_changes' = Tail(wh_changes)
    /\ UNCHANGED <<ORG_DOMAINS, entityVars, accessVars, aggVars, searchVars,
                   resolverVars, gateVars, indexVars, chatVars, delta_links,
                   drive_feed, applied, wh_pc, wh_notifications, wh_resource,
                   wh_stopped>>

\* lines 399-401: delete_document_from_database, which swallows an error of
\* the collection
DeleteChange ==
    /\ wh_pc = "changes"
    /\ wh_changes # <<>>
    /\ ChangeKind = "deleted"
    /\ \E done \in BOOLEAN :
          applied' = IF done THEN applied \cup {<<wh_resource, Head(wh_changes)>>}
                     ELSE applied
    /\ wh_changes' = Tail(wh_changes)
    /\ UNCHANGED <<ORG_DOMAINS, entityVars, accessVars, aggVars, searchVars,
                   resolverVars, gateVars, indexVars, chatVars, delta_links,
                   drive_feed, wh_pc, wh_notifications, wh_resource, wh_stopped>>

\* lines 405-419: the content is fetched and update_document_in_database
\* re-indexes the document, or prints the error it caught
UpdateChange ==
    /\ wh_pc = "changes"
    /\ wh_changes # <<>>
    /\ ChangeKind = "file"
    /\ \E done \in BOOLEAN :
          applied' = IF done THEN applied \cup {<<wh_resource, Head(wh_changes)>>}
                     ELSE applied
    /\ wh_changes' = Tail(wh_changes)
    /\ UNCHANGED <<ORG_DOMAINS, entityVars, accessVars, aggVars, searchVars,
                   resolverVars, gateVars, indexVars, chatVars, delta_links,
                   drive_feed, wh_pc, wh_notifications, wh_resource, wh_stopped>>

\* line 406: get_document_content raises (a request of lines 195-218 failed),
\* caught at line 421
ContentFails ==
    /\ wh_pc = "changes"
    /\ wh_changes # <<>>
    /\ ChangeKind = "file"
    /\ wh_pc' = "idle"
    /\ wh_notifications' = <<>>
    /\ wh_changes' = <<>>
    /\ wh_stopped' = (wh_stopped \/ ItemsLeft \/ Tail(wh_changes) # <<>>)
    /\ UNCHANGED <<ORG_DOMAINS, entityVars, accessVars, aggVars, searchVars,
                   resolverVars, gateVars, indexVars, chatVars, delta_links,
                   drive_feed, applied, wh_resource>>

\* line 382: the changes are exhausted, the loop of line 351 goes on
EndOfChanges ==
    /\ wh_pc = "changes"
    /\ wh_changes = <<>>
    /\ wh_notifications' = Tail(wh_notifications)
    /\ wh_pc' = "item"
    /\ UNCHANGED <<ORG_DOMAINS, entityVars, accessVars, aggVars, searchVars,
                   resolverVars, gateVars, indexVars, chatVars, delta_links,
                   drive_feed, applied, wh_resource, wh_changes, wh_stopped>>

\* line 351: the items are exhausted
EndOfNotification ==
    /\ wh_pc = "item"
    /\ wh_notifications = <<>>
    /\ wh_pc' = "idle"
    /\ UNCHANGED <<ORG_DOMAINS, entityVars, accessVars, aggVars, searchVars,
                   resolverVars, gateVars, indexVars, chatVars, delta_links,
                   drive_feed, applied, wh_notifications, wh_resource, wh_changes,
                   wh_stopped>>

NextWebhook ==
    \/ ChangeInDrive
    \/ ReceiveNotification
    \/ SkipItem
    \/ DeltaRequestFails
    \/ EmptyDelta
    \/ FetchDelta
    \/ SkipChange
    \/ DeleteChange
    \/ UpdateChange
    \/ ContentFails
    \/ EndOfChanges
    \/ EndOfNotification

SpecWebhook == InitWebhook /\ [][NextWebhook]_vars

\* the changes a later delta query no longer returns: those up to the saved link
BehindLink ==
    { c \in Resources \X (1..MaxFeed) :
          /\ c[2] <= delta_links[c[1]]
          /\ drive_feed[c[1]][c[2]] \in {"deleted", "file"} }

\* every change behind the saved delta link was applied to the store
NoChangeLost == wh_pc = "idle" => BehindLink \subseteq applied

\* no return left other items or changes of the notification unhandled
OthersHandled == ~wh_stopped

\* C30: once process_webhook_notification has returned, every deletion or file
\* change of a delta response was applied to the document store or is returned
\* again by a later delta query (the saved delta link reaches only applied
\* changes), and neither a failure on one change nor an empty delta for one
\* item kept the other items and changes of the notification from being handled.
C30_NoChangeLost == NoChangeLost /\ OthersHandled

====
